---- MODULE Spec2Model ----
(***************************************************************************)
(* Model of the GeneralisedRelayer Store (src/src/store/store.lib.ts), of  *)
(* the submitter's SubmitQueue (src/src/submitter/queues/submit-queue.ts), *)
(* of the Submitter's configuration and dispatcher, of the Wallet and of   *)
(* the block-window scanners of the collectors.                            *)
(*                                                                         *)
(* The Store keeps one JSON document per messageIdentifier under the key   *)
(* relayer:bounty:<messageIdentifier>.  A JSON document is modelled as a   *)
(* function from field names to integers; a field that is not part of the  *)
(* document holds Undefined, a field serialised as `null` holds JsNull.    *)
(* The value kept by redis under a key is a sequence: <<>> when the key is *)
(* not set (redis.get answers null), <<doc>> when it holds a document.     *)
(***************************************************************************)
EXTENDS Integers, Sequences, FiniteSets, TLC

\* ------------------------------------------------------------------------
\* Bounds of the model
\* ------------------------------------------------------------------------

\* Gas prices carried by the events range over 0..MaxPrice.
MaxPrice == 2

\* Number of register* calls in a behaviour of sequential calls.
MaxCalls == 3

\* Number of Store calls (register*, del) in a behaviour of concurrent
\* workers.
MaxConcurrentCalls == 2

\* retryInterval, in ticks of the model's clock.
RetryTicks == 2

\* The AmbPayloads the collectors publish.
MaxPublications == 4

\* The repricings of a transaction.
MaxReprices == 1

\* The block numbers of a chain and the rejected getLogs of one query.
MaxBlock == 4

MaxGetLogsFailures == 1

\* The logs handed to the event handlers of the collector workers.
MaxEvents == 2

\* maxTries of the queues (MAX_TRIES_DEFAULT).
maxTries == 3

\* ProcessingQueue: the `success` reported for an order whose handleOrder
\* returned null (section 4.3: success only with a non-null result).
SkipIsSuccess == FALSE

\* ------------------------------------------------------------------------
\* JavaScript / JSON values
\* ------------------------------------------------------------------------

\* A property that is not part of an object (JSON.stringify leaves it out).
Undefined == -1

\* The JSON literal null, null in JavaScript.
JsNull == -2

\* The JavaScript number NaN, which JSON.stringify writes as null.
NaN == -3

\* BountyStatus (src/store/types/bounty.enum, not part of the sources at
\* hand): BountyPlaced < MessageDelivered < BountyClaimed.
BountyPlaced == 0

MessageDelivered == 1

BountyClaimed == 2

Statuses == {BountyPlaced, MessageDelivered, BountyClaimed}

\* The fields of a Bounty / BountyJson document.
Fields ==
    {"messageIdentifier", "fromChainId", "toChainId", "maxGasDelivery",
     "maxGasAck", "refundGasTo", "priceOfDeliveryGas", "priceOfAckGas",
     "targetDelta", "status", "address", "finalised",
     "submitTransactionHash", "execTransactionHash", "ackTransactionHash"}

\* The object literal { k1: v1, ... } given as a set of <<field, value>>.
Obj(pairs) ==
    [f \in Fields |->
        IF \E p \in pairs : p[1] = f
        THEN (CHOOSE p \in pairs : p[1] = f)[2]
        ELSE Undefined]

\* { ...a, ...b } : the properties of b override those of a.  A property of
\* b that holds null is a property of b and overrides too.
Spread(a, b) == [f \in Fields |-> IF b[f] # Undefined THEN b[f] ELSE a[f]]

\* JSON.stringify followed by JSON.parse of the document: undefined
\* properties are left out, NaN is written as null.
JSONstringify(o) == [f \in Fields |-> IF o[f] = NaN THEN JsNull ELSE o[f]]

\* ToNumber as applied by Math.max to an argument read from JSON:
\* undefined -> NaN, null -> 0, a number -> itself.
ToNumber(v) == IF v = Undefined THEN NaN ELSE IF v = JsNull THEN 0 ELSE v

\* Math.max(a, b): NaN if either argument converts to NaN.
MathMax(a, b) ==
    LET x == ToNumber(a)
        y == ToNumber(b)
    IN  IF x = NaN \/ y = NaN THEN NaN ELSE IF x >= y THEN x ELSE y

\* BigNumber.from(v ?? '0'): the stored decimal string as a number, 0 when
\* the property is null or undefined.
BigNumberFromOrZero(v) == IF v = Undefined \/ v = JsNull THEN 0 ELSE v

\* ------------------------------------------------------------------------
\* Inputs
\* ------------------------------------------------------------------------

\* The message identifiers of the model (0xAA...).
MessageIds == {170}

\* Each worker owns a Store constructed with the chainId of its chain.
Workers == {1, 2}

ChainIdOf(w) == w

Prices == 0 .. MaxPrice

\* BountyPlaced(messageIdentifier, incentive) logs as handed to the Store.
PlacedEvents ==
    [messageIdentifier : MessageIds,
     maxGasDelivery : {200}, maxGasAck : {100}, refundGasTo : {11},
     priceOfDeliveryGas : Prices, priceOfAckGas : Prices, targetDelta : {0},
     incentivesAddress : {12}, transactionHash : {161}]

\* MessageDelivered logs as handed to the Store.
DeliveredEvents ==
    [messageIdentifier : MessageIds, incentivesAddress : {12},
     transactionHash : {162}]

\* BountyClaimed logs as handed to the Store.
ClaimedEvents ==
    [messageIdentifier : MessageIds, incentivesAddress : {12},
     transactionHash : {163}]

\* BountyIncreased logs as handed to the Store.
IncreasedEvents ==
    [messageIdentifier : MessageIds, newDeliveryGasPrice : Prices,
     newAckGasPrice : Prices, incentivesAddress : {12},
     transactionHash : {164}]

\* `false` as stored in the `finalised` property.
JsFalse == 0

\* ------------------------------------------------------------------------
\* The documents written by the register* methods
\* ------------------------------------------------------------------------

\* The bounty object built by registerBountyPlaced from its event.
FreshBounty(chainId, event) ==
    Obj({<<"messageIdentifier", event.messageIdentifier>>,
         <<"fromChainId", chainId>>,
         <<"maxGasDelivery", event.maxGasDelivery>>,
         <<"maxGasAck", event.maxGasAck>>,
         <<"refundGasTo", event.refundGasTo>>,
         <<"priceOfDeliveryGas", event.priceOfDeliveryGas>>,
         <<"priceOfAckGas", event.priceOfAckGas>>,
         <<"targetDelta", event.targetDelta>>,
         <<"status", BountyPlaced>>,
         <<"address", event.incentivesAddress>>,
         <<"finalised", JsFalse>>,
         <<"submitTransactionHash", event.transactionHash>>})

\* Variant of BountyPlacedObject: the spread operands are swapped, the
\* freshly built bounty overrides what is stored.
BountyPlacedObject_FreshWins(chainId, event, existingValue) ==
    IF existingValue # <<>>
    THEN Spread(existingValue[1], FreshBounty(chainId, event))
    ELSE FreshBounty(chainId, event)

\* registerBountyPlaced: the object handed to JSON.stringify, existingValue
\* being what `get` answered.
BountyPlacedObject(chainId, event, existingValue) ==
    IF existingValue # <<>>
    THEN Spread(FreshBounty(chainId, event), existingValue[1])
    ELSE FreshBounty(chainId, event)

\* Variant of MessageDeliveredObject: the status is overwritten, not merged.
MessageDeliveredObject_Overwrite(chainId, event, existingValue) ==
    IF existingValue = <<>>
    THEN Obj({<<"messageIdentifier", event.messageIdentifier>>,
              <<"status", MessageDelivered>>,
              <<"execTransactionHash", event.transactionHash>>,
              <<"toChainId", chainId>>})
    ELSE Spread(existingValue[1],
                Obj({<<"status", MessageDelivered>>,
                     <<"execTransactionHash", event.transactionHash>>,
                     <<"toChainId", chainId>>}))

\* Variant of MessageDeliveredObject: the document is rebuilt from the
\* event, what was read is not spread into it.
MessageDeliveredObject_Rebuilt(chainId, event, existingValue) ==
    Obj({<<"messageIdentifier", event.messageIdentifier>>,
         <<"status",
           IF existingValue = <<>> THEN MessageDelivered
           ELSE MathMax(existingValue[1]["status"], MessageDelivered)>>,
         <<"execTransactionHash", event.transactionHash>>,
         <<"toChainId", chainId>>})

\* Variant of MessageDeliveredObject: the baseline document of an unknown
\* identifier lacks toChainId.
MessageDeliveredObject_NoChain(chainId, event, existingValue) ==
    IF existingValue = <<>>
    THEN Obj({<<"messageIdentifier", event.messageIdentifier>>,
              <<"status", MessageDelivered>>,
              <<"execTransactionHash", event.transactionHash>>})
    ELSE Spread(existingValue[1],
                Obj({<<"status",
                       MathMax(existingValue[1]["status"], MessageDelivered)>>,
                     <<"execTransactionHash", event.transactionHash>>,
                     <<"toChainId", chainId>>}))

\* registerMessageDelivered: the object handed to JSON.stringify.
MessageDeliveredObject(chainId, event, existingValue) ==
    IF existingValue = <<>>
    THEN Obj({<<"messageIdentifier", event.messageIdentifier>>,
              <<"status", MessageDelivered>>,
              <<"execTransactionHash", event.transactionHash>>,
              <<"toChainId", chainId>>})
    ELSE Spread(existingValue[1],
                Obj({<<"status",
                       MathMax(existingValue[1]["status"], MessageDelivered)>>,
                     <<"execTransactionHash", event.transactionHash>>,
                     <<"toChainId", chainId>>}))

\* registerBountyClaimed: the object handed to JSON.stringify.
BountyClaimedObject(chainId, event, existingValue) ==
    IF existingValue = <<>>
    THEN Obj({<<"messageIdentifier", event.messageIdentifier>>,
              <<"status", BountyClaimed>>,
              <<"ackTransactionHash", event.transactionHash>>,
              <<"fromChainId", chainId>>})
    ELSE Spread(existingValue[1],
                Obj({<<"status",
                       MathMax(BountyClaimed, existingValue[1]["status"])>>,
                     <<"ackTransactionHash", event.transactionHash>>,
                     <<"fromChainId", chainId>>}))

\* Variant of HasChanged: the comparisons are not strict.
HasChanged_NotStrict(event, bountyAsRead) ==
    LET currentDeliveryGasPrice ==
            BigNumberFromOrZero(bountyAsRead["priceOfDeliveryGas"])
        currentAckGasPrice ==
            BigNumberFromOrZero(bountyAsRead["priceOfAckGas"])
    IN  \/ currentDeliveryGasPrice <= event.newDeliveryGasPrice
        \/ currentAckGasPrice <= event.newAckGasPrice

\* registerBountyIncreased: hasChanged, evaluated on an existing document.
HasChanged(event, bountyAsRead) ==
    LET currentDeliveryGasPrice ==
            BigNumberFromOrZero(bountyAsRead["priceOfDeliveryGas"])
        currentAckGasPrice ==
            BigNumberFromOrZero(bountyAsRead["priceOfAckGas"])
    IN  \/ currentDeliveryGasPrice < event.newDeliveryGasPrice
        \/ currentAckGasPrice < event.newAckGasPrice

\* registerBountyIncreased: does the call reach a `set`?
BountyIncreasedSets(event, existingValue) ==
    existingValue = <<>> \/ HasChanged(event, existingValue[1])

\* Variant of BountyIncreasedObject: the new prices are written as they
\* come, without the per-price maximum.
BountyIncreasedObject_NoMax(event, existingValue) ==
    IF existingValue = <<>>
    THEN Obj({<<"messageIdentifier", event.messageIdentifier>>,
              <<"priceOfDeliveryGas", event.newDeliveryGasPrice>>,
              <<"priceOfAckGas", event.newAckGasPrice>>})
    ELSE Spread(existingValue[1],
                Obj({<<"priceOfDeliveryGas", event.newDeliveryGasPrice>>,
                     <<"priceOfAckGas", event.newAckGasPrice>>}))

\* registerBountyIncreased: the object handed to JSON.stringify when the
\* call reaches a `set`.
BountyIncreasedObject(event, existingValue) ==
    IF existingValue = <<>>
    THEN Obj({<<"messageIdentifier", event.messageIdentifier>>,
              <<"priceOfDeliveryGas", event.newDeliveryGasPrice>>,
              <<"priceOfAckGas", event.newAckGasPrice>>})
    ELSE LET bountyAsRead == existingValue[1]
             currentDeliveryGasPrice ==
                 BigNumberFromOrZero(bountyAsRead["priceOfDeliveryGas"])
             currentAckGasPrice ==
                 BigNumberFromOrZero(bountyAsRead["priceOfAckGas"])
         IN  Spread(bountyAsRead,
                    Obj({<<"priceOfDeliveryGas",
                           IF currentDeliveryGasPrice < event.newDeliveryGasPrice
                           THEN event.newDeliveryGasPrice
                           ELSE currentDeliveryGasPrice>>,
                         <<"priceOfAckGas",
                           IF currentAckGasPrice < event.newAckGasPrice
                           THEN event.newAckGasPrice
                           ELSE currentAckGasPrice>>}))

\* The names of the register* methods.
Ops == {"placed", "delivered", "claimed", "increased"}

\* Does the call `op(event)` reach `set`, given what its read answered?
CallSets(op, event, existingValue) ==
    IF op = "increased" THEN BountyIncreasedSets(event, existingValue)
    ELSE TRUE

\* The string handed to `set` by the call `op(event)` of a Store with the
\* given chainId.
CallValue(op, chainId, event, existingValue) ==
    JSONstringify(
        CASE op = "placed" -> BountyPlacedObject(chainId, event, existingValue)
          [] op = "delivered" ->
                MessageDeliveredObject(chainId, event, existingValue)
          [] op = "claimed" -> BountyClaimedObject(chainId, event, existingValue)
          [] op = "increased" -> BountyIncreasedObject(event, existingValue))

\* ------------------------------------------------------------------------
\* State
\* ------------------------------------------------------------------------

VARIABLES
    db,         \* redis: db[m] is the value under relayer:bounty:<m>
    version,    \* history: number of writes applied to relayer:bounty:<m>
    channel,    \* the notifications published on `key`, not yet received
    received,   \* the subscriber: its last receipt and what it then read
    call,       \* call[w]: the Store call worker w is executing
    ncalls,     \* number of Store calls started
    seen,       \* history: seen[m] the register* methods completed for m
    prices,     \* history: prices observed for m, see RecordPrices
    last        \* history: the last register* call run to completion

storeVars == <<db, version, channel, received, call, ncalls, seen, prices,
               last>>

VARIABLES
    orders,      \* orders[o]: the order o in its ProcessingQueue
    completion,  \* completion[o]: the onOrderCompletion calls made for o
    costs        \* costs[o]: the registerDeliveryCost calls made for o

queueVars == <<orders, completion, costs>>

\* The variables of the submitter's dispatcher, of the wallet and of the
\* block-window scanners are declared with their actions below.
VARIABLES
    submitter,   \* the dispatcher of a chain's Submitter
    wallet,      \* the Wallet of a chain
    scanner,     \* a block-window scanner (a collector worker)
    collector,   \* the event handlers of the collector workers
    applied      \* a function of the relayer applied to an input

otherVars == <<submitter, wallet, scanner, collector, applied>>

vars == <<db, version, channel, received, call, ncalls, seen, prices, last,
          orders, completion, costs, submitter, wallet, scanner, collector,
          applied>>

\* The key relayer:bounty:<messageIdentifier>; the model names a key by its
\* messageIdentifier.
BountyKey(messageIdentifier) == messageIdentifier

\* A worker that executes no Store call.
IdleCall ==
    [pc |-> "idle", op |-> "none", key |-> 0, value |-> <<>>, step |-> 0,
     ran |-> FALSE, written |-> 0, published |-> 0, result |-> "none"]

NoPrices ==
    [increasedDelivery |-> Undefined, increasedAck |-> Undefined,
     placedDelivery |-> Undefined, placedAck |-> Undefined]

NoCall ==
    [op |-> "none", chainId |-> 0, event |-> <<>>, existingValue |-> <<>>,
     sets |-> FALSE, published |-> 0]

StoreInit ==
    /\ db = [m \in MessageIds |-> <<>>]
    /\ version = [m \in MessageIds |-> 0]
    /\ channel = <<>>
    /\ received = [action |-> "none", version |-> 0, written |-> TRUE,
                   read |-> 0]
    /\ call = [w \in Workers |-> IdleCall]
    /\ ncalls = 0
    /\ seen = [m \in MessageIds |-> {}]
    /\ prices = [m \in MessageIds |-> NoPrices]
    /\ last = NoCall

\* ------------------------------------------------------------------------
\* Store.set and Store.del
\* ------------------------------------------------------------------------

\* Variant of StoreSetBody: the notification is posted before the write.
StoreSetBody_PublishFirst == <<"postMessage", "redis.set">>

\* The statements of Store.set, in program order.
StoreSetBody == <<"redis.set", "postMessage">>

\* The statements of Store.del, in program order.
StoreDelBody == <<"redis.del", "postMessage">>

\* redis.publish on relayer:key of { key, action }.  The history fields say
\* which write of the key the publishing call had applied (0: none).
Notification(key, action, written) ==
    [key |-> key, action |-> action, written |-> written # 0,
     version |-> written]

Max(a, b) == IF a >= b THEN a ELSE b

\* History: the prices observed for a messageIdentifier.  increased*: the
\* largest price handed to registerBountyIncreased; placed*: the price that
\* registerBountyPlaced stored (it does so when the document has none).
RecordPrices(p, op, event, existingValue) ==
    CASE op = "increased" ->
            [p EXCEPT !.increasedDelivery = Max(@, event.newDeliveryGasPrice),
                      !.increasedAck = Max(@, event.newAckGasPrice)]
      [] op = "placed" ->
            [p EXCEPT
                !.placedDelivery =
                    IF existingValue = <<>>
                       \/ existingValue[1]["priceOfDeliveryGas"] = Undefined
                    THEN event.priceOfDeliveryGas ELSE @,
                !.placedAck =
                    IF existingValue = <<>>
                       \/ existingValue[1]["priceOfAckGas"] = Undefined
                    THEN event.priceOfAckGas ELSE @]
      [] OTHER -> p

\* ------------------------------------------------------------------------
\* register* calls run to completion (no other Store call in between)
\* ------------------------------------------------------------------------

\* Worker w calls the register* method `op` with `event`; the read, the
\* `set` (redis.set, then the notification) all happen before any other
\* call.
Register(w, op, event) ==
    LET m == event.messageIdentifier
        existingValue == db[BountyKey(m)]
        sets == CallSets(op, event, existingValue)
        value == CallValue(op, ChainIdOf(w), event, existingValue)
    IN  /\ ncalls < MaxCalls
        /\ ncalls' = ncalls + 1
        /\ IF sets
           THEN /\ db' = [db EXCEPT ![BountyKey(m)] = <<value>>]
                /\ version' = [version EXCEPT ![BountyKey(m)] = @ + 1]
                /\ channel' = Append(channel,
                        Notification(BountyKey(m), "set",
                                     version[BountyKey(m)] + 1))
           ELSE UNCHANGED <<db, version, channel>>
        /\ seen' = [seen EXCEPT ![m] = @ \cup {op}]
        /\ prices' = [prices EXCEPT
                         ![m] = RecordPrices(@, op, event, existingValue)]
        /\ last' = [op |-> op, chainId |-> ChainIdOf(w), event |-> event,
                    existingValue |-> existingValue, sets |-> sets,
                    published |-> Len(channel') - Len(channel)]
        /\ UNCHANGED <<received, call>>
        /\ UNCHANGED <<queueVars, otherVars>>

registerBountyPlaced(w) ==
    \E event \in PlacedEvents : Register(w, "placed", event)

registerMessageDelivered(w) ==
    \E event \in DeliveredEvents : Register(w, "delivered", event)

registerBountyClaimed(w) ==
    \E event \in ClaimedEvents : Register(w, "claimed", event)

registerBountyIncreased(w) ==
    \E event \in IncreasedEvents : Register(w, "increased", event)

\* ------------------------------------------------------------------------
\* Store calls of concurrent workers
\*
\* Every worker owns a Store (its own redis connection).  A Store method
\* yields at each `await`: other workers' redis commands may be served
\* between its redis.get, its redis.set and its publish.
\* ------------------------------------------------------------------------

\* The body of the method worker w is in (Store.set or Store.del).
BodyOf(c) == IF c.pc = "del" THEN StoreDelBody ELSE StoreSetBody

\* The call of worker w after it executed the statement at c.step; a call
\* that returned keeps what it did (written, published, result).
Advance(c) ==
    IF c.step = Len(BodyOf(c))
    THEN [c EXCEPT !.pc = "idle", !.step = 0, !.value = <<>>, !.result = "ok"]
    ELSE [c EXCEPT !.step = @ + 1]

\* History: a register* call that returned is added to seen (a del is
\* added when redis applies it, see RedisWrite).
Completed(c, c2) ==
    IF c2.pc = "idle" /\ c2.result = "ok" /\ c.op \in Ops
    THEN [seen EXCEPT ![c.key] = @ \cup {c.op}]
    ELSE seen

\* Worker w calls the register* method `op` with `event`: redis serves the
\* `get` and the method computes what it will hand to `set`, or returns.
Get(w, op, event) ==
    LET m == event.messageIdentifier
        existingValue == db[BountyKey(m)]
        c == [pc |-> "set", op |-> op, key |-> BountyKey(m),
              value |-> <<CallValue(op, ChainIdOf(w), event, existingValue)>>,
              step |-> 1, ran |-> TRUE, written |-> 0, published |-> 0,
              result |-> "none"]
        c2 == IF CallSets(op, event, existingValue)
              THEN c
              ELSE [c EXCEPT !.pc = "idle", !.step = 0, !.value = <<>>,
                             !.ran = FALSE, !.result = "ok"]
    IN  /\ call[w].pc = "idle"
        /\ ncalls < MaxConcurrentCalls
        /\ ncalls' = ncalls + 1
        /\ call' = [call EXCEPT ![w] = c2]
        /\ seen' = Completed(c, c2)
        /\ UNCHANGED <<db, version, channel, received, prices, last>>
        /\ UNCHANGED <<queueVars, otherVars>>

\* The concurrent workers hand over events with the extreme prices.
ExtremePrice(p) == p \in {0, MaxPrice}

GetBountyPlaced(w) ==
    \E event \in PlacedEvents :
        /\ ExtremePrice(event.priceOfDeliveryGas)
        /\ ExtremePrice(event.priceOfAckGas)
        /\ Get(w, "placed", event)

GetMessageDelivered(w) ==
    \E event \in DeliveredEvents : Get(w, "delivered", event)

GetBountyClaimed(w) == \E event \in ClaimedEvents : Get(w, "claimed", event)

GetBountyIncreased(w) ==
    \E event \in IncreasedEvents :
        /\ ExtremePrice(event.newDeliveryGasPrice)
        /\ ExtremePrice(event.newAckGasPrice)
        /\ Get(w, "increased", event)

\* Worker w calls Store.del(key).
Del(w) ==
    \E m \in MessageIds :
        /\ call[w].pc = "idle"
        /\ ncalls < MaxConcurrentCalls
        /\ ncalls' = ncalls + 1
        /\ call' = [call EXCEPT ![w] =
                [pc |-> "del", op |-> "del", key |-> BountyKey(m),
                 value |-> <<>>, step |-> 1, ran |-> TRUE, written |-> 0,
                 published |-> 0, result |-> "none"]]
        /\ UNCHANGED <<db, version, channel, received, seen, prices, last>>
        /\ UNCHANGED <<queueVars, otherVars>>

\* redis serves the redis.set / redis.del of worker w.
RedisWrite(w) ==
    LET c == call[w]
        c2 == Advance([c EXCEPT !.written = version[c.key] + 1])
    IN  /\ c.pc \in {"set", "del"}
        /\ BodyOf(c)[c.step] \in {"redis.set", "redis.del"}
        /\ db' = [db EXCEPT ![c.key] = c.value]
        /\ version' = [version EXCEPT ![c.key] = @ + 1]
        /\ call' = [call EXCEPT ![w] = c2]
        /\ seen' = IF c.pc = "del"
                   THEN [seen EXCEPT ![c.key] = @ \cup {"del"}]
                   ELSE Completed(c, c2)
        /\ UNCHANGED <<channel, received, ncalls, prices, last>>
        /\ UNCHANGED <<queueVars, otherVars>>

\* redis publishes the `key` notification of worker w.
PostMessage(w) ==
    LET c == call[w]
        c2 == Advance([c EXCEPT !.published = @ + 1])
    IN  /\ c.pc \in {"set", "del"}
        /\ BodyOf(c)[c.step] = "postMessage"
        /\ channel' = Append(channel,
                Notification(c.key, IF c.pc = "del" THEN "del" ELSE "set",
                             c.written))
        /\ call' = [call EXCEPT ![w] = c2]
        /\ seen' = Completed(c, c2)
        /\ UNCHANGED <<db, version, received, ncalls, prices, last>>
        /\ UNCHANGED <<queueVars, otherVars>>

\* The awaited redis command of worker w (the write or the publish) is
\* rejected: the method throws at that statement.
\* The result of the call names that statement.
RedisError(w) ==
    /\ call[w].pc \in {"set", "del"}
    /\ call' = [call EXCEPT ![w] =
            [call[w] EXCEPT !.pc = "idle", !.step = 0, !.value = <<>>,
                            !.result = BodyOf(call[w])[call[w].step]]]
    /\ UNCHANGED <<db, version, channel, received, ncalls, seen, prices, last>>
    /\ UNCHANGED <<queueVars, otherVars>>

\* A subscriber of `key` receives the oldest notification and reads the key.
Receive ==
    /\ channel # <<>>
    /\ received' = [action |-> Head(channel).action,
                    version |-> Head(channel).version,
                    written |-> Head(channel).written,
                    read |-> version[Head(channel).key]]
    /\ channel' = Tail(channel)
    /\ UNCHANGED <<db, version, call, ncalls, seen, prices, last>>
    /\ UNCHANGED <<queueVars, otherVars>>

\* ------------------------------------------------------------------------
\* ProcessingQueue and SubmitQueue
\*
\* ProcessingQueue (src/processing-queue/processing-queue, not part of the
\* sources at hand) is modelled from section 4.3 of the specification; the
\* hooks of SubmitQueue are modelled from submit-queue.ts.  An order of
\* kind "submit" is in a SubmitQueue, an order of kind "generic" in a
\* ProcessingQueue whose hooks are left open.
\* ------------------------------------------------------------------------

\* The orders of the model.
OrderIds == {1, 2}

OrderKinds == {"submit", "generic"}

\* The error codes of a rejected provider call or wallet request.
ErrorCodes == {"CALL_EXCEPTION", "TIMEOUT"}

\* txReceipt.gasUsed of the receipts the wallet returns.
GasUsedValues == {21000, 150000}

\* An order that is not in a queue.  Besides the order (kind, isDelivery,
\* requeueCount) and its retry state (retryCount, wait) the record keeps the
\* history of the order: the handleOrder calls made for it (attempts), those
\* that failed (failures), the last error thrown (lastError), the
\* wallet.submitTransaction calls made for it (sent), and whether another
\* relayer has already delivered its message (relayed).
NoOrder ==
    [state |-> "none", kind |-> "submit", isDelivery |-> FALSE,
     requeueCount |-> 0, retryCount |-> 0, wait |-> 0,
     attempts |-> 0, failures |-> 0, lastError |-> "none", sent |-> 0,
     relayed |-> FALSE]

QueueInit ==
    /\ orders = [o \in OrderIds |-> NoOrder]
    /\ completion = [o \in OrderIds |-> <<>>]
    /\ costs = [o \in OrderIds |-> <<>>]

\* Variant of SimulatesFirst: the static call is made for requeued orders
\* only.
SimulatesFirst_RequeuedOnly(order, retryCount) ==
    order.requeueCount > 0

\* SubmitQueue.handleOrder: is the static call made before the submission?
SimulatesFirst(order, retryCount) ==
    retryCount > 0 \/ order.requeueCount > 0

\* Variant of handleFailedOrder: every error is retried.
handleFailedOrder_AlwaysRetry(order, retryCount, error) == TRUE

\* Variant of handleFailedOrder: CALL_EXCEPTION ends the order on its first
\* try only.
handleFailedOrder_FirstTryOnly(order, retryCount, error) ==
    ~(error = "CALL_EXCEPTION" /\ retryCount = 0)

\* SubmitQueue.handleFailedOrder: retry?
handleFailedOrder(order, retryCount, error) == error # "CALL_EXCEPTION"

\* Variant of TransactionResultError: the confirmationError is looked at
\* before the submissionError.
TransactionResultError_ConfirmationFirst(response) ==
    IF response[2] # "none" THEN response[2]
    ELSE IF response[1] # "none" THEN response[1]
    ELSE IF response[3] = "none" THEN "NO_TX"
    ELSE IF response[4] = Undefined THEN "NO_RECEIPT"
    ELSE "none"

\* SubmitQueue.handleOrder, the continuation of wallet.submitTransaction:
\* the error thrown for a wallet response, "none" when a SubmitOrderResult
\* is returned.  A response is <<submissionError, confirmationError, tx,
\* txReceipt>>; an error or tx that is absent is "none", a txReceipt is its
\* gasUsed, Undefined when absent.
TransactionResultError(response) ==
    IF response[1] # "none" THEN response[1]
    ELSE IF response[2] # "none" THEN response[2]
    ELSE IF response[3] = "none" THEN "NO_TX"
    ELSE IF response[4] = Undefined THEN "NO_RECEIPT"
    ELSE "none"

\* The responses of the wallet.
WalletResponses ==
    {<<"none", "none", "tx", gasUsed>> : gasUsed \in GasUsedValues}
    \cup {<<e, "none", "none", Undefined>> : e \in ErrorCodes}
    \cup {<<"none", e, "tx", Undefined>> : e \in ErrorCodes}

\* Variant of SubmissionCostsRegistered: the cost of an ack is registered
\* too.
SubmissionCostsRegistered_AckToo(order, success, result) ==
    IF success /\ result # JsNull THEN <<result>> ELSE <<>>

\* SubmitQueue.onOrderCompletion and registerSubmissionCost: the
\* deliveryGasCost of the store.registerDeliveryCost calls made.  A
\* SubmitOrderResult is modelled by its txReceipt.gasUsed, null by JsNull.
SubmissionCostsRegistered(order, success, result) ==
    IF success /\ result # JsNull /\ order.isDelivery
    THEN <<result>> ELSE <<>>

\* ProcessingQueue: onOrderCompletion(order, success, result, retryCount)
\* is invoked and the order leaves the queue.
Complete(o, success, result, order) ==
    /\ orders' = [orders EXCEPT ![o] = [order EXCEPT !.state = "completed"]]
    /\ completion' = [completion EXCEPT ![o] =
            Append(@, [success |-> success, result |-> result,
                       retryCount |-> orders[o].retryCount])]
    /\ costs' = [costs EXCEPT ![o] =
            IF orders[o].kind = "submit"
            THEN @ \o SubmissionCostsRegistered(orders[o], success, result)
            ELSE @]

\* Variant of TriesLeft: one try too many.
TriesLeft_OneMore(retryCount) == retryCount < maxTries

\* ProcessingQueue: may a failed order be tried again?
TriesLeft(retryCount) == retryCount + 1 < maxTries

\* The order o after its attempt failed with error.
AfterFailure(o, error) ==
    [orders[o] EXCEPT !.failures = @ + 1, !.lastError = error]

\* Variant of Failed: an order that handleFailedOrder gives up leaves the
\* queue without onOrderCompletion.
Failed_SilentDrop(o, retry, error) ==
    IF retry /\ TriesLeft(orders[o].retryCount)
    THEN /\ orders' = [orders EXCEPT ![o] =
                [AfterFailure(o, error) EXCEPT !.state = "queued",
                                               !.retryCount = @ + 1,
                                               !.wait = RetryTicks]]
         /\ UNCHANGED <<completion, costs>>
    ELSE IF retry
    THEN Complete(o, FALSE, JsNull, AfterFailure(o, error))
    ELSE /\ orders' = [orders EXCEPT ![o] =
                [AfterFailure(o, error) EXCEPT !.state = "completed"]]
         /\ UNCHANGED <<completion, costs>>

\* ProcessingQueue: an attempt of order o failed with error; retry tells
\* what handleFailedOrder answered.
Failed(o, retry, error) ==
    IF retry /\ TriesLeft(orders[o].retryCount)
    THEN /\ orders' = [orders EXCEPT ![o] =
                [AfterFailure(o, error) EXCEPT !.state = "queued",
                                               !.retryCount = @ + 1,
                                               !.wait = RetryTicks]]
         /\ UNCHANGED <<completion, costs>>
    ELSE Complete(o, FALSE, JsNull, AfterFailure(o, error))

\* ProcessingQueue.addOrders: order o enters the queue.
addOrders(o) ==
    /\ orders[o].state = "none"
    /\ \E kind \in OrderKinds, isDelivery \in BOOLEAN, requeueCount \in {0, 1} :
          orders' = [orders EXCEPT ![o] =
                [NoOrder EXCEPT !.state = "queued", !.kind = kind,
                                !.isDelivery = isDelivery,
                                !.requeueCount = requeueCount]]
    /\ UNCHANGED <<completion, costs>>
    /\ UNCHANGED <<storeVars, otherVars>>

\* Time passes: the orders waiting for their processAt get closer to it.
Tick ==
    /\ \E o \in OrderIds : orders[o].state = "queued" /\ orders[o].wait > 0
    /\ orders' = [o \in OrderIds |->
            IF orders[o].state = "queued" /\ orders[o].wait > 0
            THEN [orders[o] EXCEPT !.wait = @ - 1]
            ELSE orders[o]]
    /\ UNCHANGED <<completion, costs>>
    /\ UNCHANGED <<storeVars, otherVars>>

\* The queue hands the eligible order o to SubmitQueue.handleOrder, which
\* starts the static call or, without one, hands the transactionRequest to
\* the wallet.
handleOrder(o) ==
    /\ orders[o].state = "queued"
    /\ orders[o].wait = 0
    /\ orders[o].kind = "submit"
    /\ orders' = [orders EXCEPT ![o] =
            IF SimulatesFirst(orders[o], orders[o].retryCount)
            THEN [@ EXCEPT !.state = "simulating", !.attempts = @ + 1]
            ELSE [@ EXCEPT !.state = "submitted", !.attempts = @ + 1,
                           !.sent = @ + 1]]
    /\ UNCHANGED <<completion, costs>>
    /\ UNCHANGED <<storeVars, otherVars>>

\* Another relayer delivers the message of order o: from then on the
\* static call of its transactionRequest reverts.
CompetitorDelivers(o) ==
    /\ orders[o].state \in {"queued", "simulating", "submitted"}
    /\ orders[o].kind = "submit"
    /\ ~orders[o].relayed
    /\ orders' = [orders EXCEPT ![o].relayed = TRUE]
    /\ UNCHANGED <<completion, costs>>
    /\ UNCHANGED <<storeVars, otherVars>>

\* provider.call answers: handleOrder goes on and hands the
\* transactionRequest to the wallet.
ProviderCallReturns(o) ==
    /\ orders[o].state = "simulating"
    /\ ~orders[o].relayed
    /\ orders' = [orders EXCEPT ![o].state = "submitted", ![o].sent = @ + 1]
    /\ UNCHANGED <<completion, costs>>
    /\ UNCHANGED <<storeVars, otherVars>>

\* provider.call is rejected: handleOrder throws the error.
ProviderCallThrows(o) ==
    /\ orders[o].state = "simulating"
    /\ \E error \in ErrorCodes :
          Failed(o, handleFailedOrder(orders[o], orders[o].retryCount, error),
                 error)
    /\ UNCHANGED <<storeVars, otherVars>>

\* The wallet answers the request of order o.
WalletResponds(o) ==
    /\ orders[o].state = "submitted"
    /\ \E response \in WalletResponses :
          LET error == TransactionResultError(response)
          IN  IF error = "none"
              THEN Complete(o, TRUE, response[4], orders[o])
              ELSE Failed(o, handleFailedOrder(orders[o], orders[o].retryCount,
                                               error), error)
    /\ UNCHANGED <<storeVars, otherVars>>

\* The result of the handleOrder of a generic ProcessingQueue.
GenericResult == 1

\* The queue hands the eligible order o to the handleOrder of a generic
\* ProcessingQueue.
GenericHandleOrder(o) ==
    /\ orders[o].state = "queued"
    /\ orders[o].wait = 0
    /\ orders[o].kind = "generic"
    /\ orders' = [orders EXCEPT ![o].state = "handling",
                                ![o].attempts = @ + 1]
    /\ UNCHANGED <<completion, costs>>
    /\ UNCHANGED <<storeVars, otherVars>>

\* The handleOrder of a generic ProcessingQueue yields a result, returns
\* null (skip) or throws, and handleFailedOrder answers either way.
GenericHandleOrderEnds(o) ==
    /\ orders[o].state = "handling"
    /\ \/ Complete(o, TRUE, GenericResult, orders[o])
       \/ Complete(o, SkipIsSuccess, JsNull, orders[o])
       \/ \E retry \in BOOLEAN, error \in ErrorCodes :
             Failed(o, retry, error)
    /\ UNCHANGED <<storeVars, otherVars>>

\* ------------------------------------------------------------------------
\* The Submitter of a chain: its configuration (submitter.service.ts) and
\* its dispatcher.  The dispatcher (submitter.worker, not part of the
\* sources at hand) is modelled from sections 3 and 4.8 of the
\* specification; the publication of an AmbPayload on submit-<chainId> is
\* MockCollectorWorker.handleMockMessage.
\* ------------------------------------------------------------------------

MAX_PENDING_TRANSACTIONS == 50

\* The messages the collectors observe.
PayloadIds == {1, 2, 3}

\* The values of maxPendingTransactions in the configuration (Undefined
\* when the key is not set).
ConfigValues == {Undefined, 1, 2}

\* Variant of NullishCoalescing: a || b, which takes b for 0 too.
NullishCoalescing_Falsy(a, b) == IF a \in {Undefined, JsNull, 0} THEN b ELSE a

\* a ?? b
NullishCoalescing(a, b) == IF a \in {Undefined, JsNull} THEN b ELSE a

\* Variant of loadWorkerData: the chain's own setting is ignored.
WorkerMaxPendingTransactions_GlobalOnly(chainConfig, globalConfig) ==
    globalConfig

\* SubmitterService.loadGlobalSubmitterConfig: maxPendingTransactions.
GlobalMaxPendingTransactions(submitterConfig) ==
    NullishCoalescing(submitterConfig, MAX_PENDING_TRANSACTIONS)

\* SubmitterService.loadWorkerData: maxPendingTransactions of the chain's
\* worker.
WorkerMaxPendingTransactions(chainConfig, globalConfig) ==
    NullishCoalescing(chainConfig, globalConfig)

SubmitterInit ==
    submitter =
        [loaded |-> FALSE,
         chainConfig |-> Undefined,       \* chains[].submitter of the file
         globalConfig |-> Undefined,      \* relayer.submitter of the file
         maxPendingTransactions |-> 0,    \* workerData.maxPendingTransactions
         published |-> 0,                 \* AmbPayloads published so far
         channel |-> <<>>,                \* submit-<chainId>, in flight
         seenIds |-> {},                  \* identifiers already received
         newOrdersQueue |-> <<>>,         \* orders not yet accepted
         pipeline |-> <<>>,               \* orders accepted, not completed
         evaluation |-> [m \in PayloadIds |-> "none"],
         submitOrders |-> [m \in PayloadIds |-> 0]]

\* SubmitterService.onModuleInit: the configuration of the chain's worker.
loadWorkerData ==
    /\ ~submitter.loaded
    /\ \E chainConfig \in ConfigValues, submitterConfig \in ConfigValues :
          submitter' = [submitter EXCEPT
              !.loaded = TRUE,
              !.chainConfig = chainConfig,
              !.globalConfig = submitterConfig,
              !.maxPendingTransactions =
                  WorkerMaxPendingTransactions(chainConfig,
                      GlobalMaxPendingTransactions(submitterConfig))]
    /\ UNCHANGED <<storeVars, queueVars, wallet, scanner, collector, applied>>

\* MockCollectorWorker.handleMockMessage: the AmbPayload of message m is
\* published on submit-<destinationChainId> (store.submitProof), once for
\* every Message log handled.
handleMockMessage(m) ==
    /\ submitter.loaded
    /\ submitter.published < MaxPublications
    /\ submitter' = [submitter EXCEPT !.published = @ + 1,
                                      !.channel = Append(@, m)]
    /\ UNCHANGED <<storeVars, queueVars, wallet, scanner, collector, applied>>

\* Variant of AlreadySeen: no identifier is remembered.
AlreadySeen_Never(m) == FALSE

\* The dispatcher: has an order for messageIdentifier m been received
\* before?
AlreadySeen(m) == m \in submitter.seenIds

\* The dispatcher's listener on submit-<chainId>: a payload whose
\* messageIdentifier was not seen yet becomes a new order.
ReceivePayload ==
    /\ submitter.channel # <<>>
    /\ LET m == Head(submitter.channel)
       IN  submitter' = [submitter EXCEPT
               !.channel = Tail(@),
               !.seenIds = @ \cup {m},
               !.newOrdersQueue = IF AlreadySeen(m) THEN @ ELSE Append(@, m)]
    /\ UNCHANGED <<storeVars, queueVars, wallet, scanner, collector, applied>>

\* Variant of PipelineCapacity: the cap is not enforced.
PipelineCapacity_Unbounded == MAX_PENDING_TRANSACTIONS

\* The dispatcher: the number of orders it may still accept.
PipelineCapacity ==
    submitter.maxPendingTransactions - Len(submitter.pipeline)

\* The sequence s without its i-th element.
RemoveAt(s, i) == SubSeq(s, 1, i - 1) \o SubSeq(s, i + 1, Len(s))

\* The dispatcher accepts the next new order into the pipeline, where it is
\* first evaluated.
AcceptOrder ==
    /\ submitter.newOrdersQueue # <<>>
    /\ PipelineCapacity > 0
    /\ submitter' = [submitter EXCEPT
           !.newOrdersQueue = Tail(@),
           !.pipeline = Append(@, [messageIdentifier |->
                                       Head(submitter.newOrdersQueue),
                                   stage |-> "eval"])]
    /\ UNCHANGED <<storeVars, queueVars, wallet, scanner, collector, applied>>

\* EvalQueue: the i-th order of the pipeline is evaluated.  Its bounty is
\* known and the Evaluator approves (a delivery SubmitOrder is passed to
\* the SubmitQueue), its bounty is known and the Evaluator rejects, or its
\* bounty does not arrive before evaluationDeadline; in the last two cases
\* the order is dropped.
EvaluateOrder(i) ==
    /\ i \in 1 .. Len(submitter.pipeline)
    /\ submitter.pipeline[i].stage = "eval"
    /\ LET m == submitter.pipeline[i].messageIdentifier
       IN  \/ submitter' = [submitter EXCEPT
                  !.evaluation[m] = "approved",
                  !.submitOrders[m] = @ + 1,
                  !.pipeline[i].stage = "submit"]
           \/ \E outcome \in {"rejected", "unknown"} :
                 submitter' = [submitter EXCEPT
                     !.evaluation[m] = outcome,
                     !.pipeline = RemoveAt(@, i)]
    /\ UNCHANGED <<storeVars, queueVars, wallet, scanner, collector, applied>>

\* SubmitQueue and ConfirmQueue: the SubmitOrder that is the i-th order of
\* the pipeline is completed.
CompleteSubmitOrder(i) ==
    /\ i \in 1 .. Len(submitter.pipeline)
    /\ submitter.pipeline[i].stage = "submit"
    /\ submitter' = [submitter EXCEPT !.pipeline = RemoveAt(@, i)]
    /\ UNCHANGED <<storeVars, queueVars, wallet, scanner, collector, applied>>

NextSubmitter ==
    \/ loadWorkerData
    \/ \E m \in PayloadIds : handleMockMessage(m)
    \/ ReceivePayload
    \/ AcceptOrder
    \/ \E i \in 1 .. MaxPublications :
          \/ EvaluateOrder(i)
          \/ CompleteSubmitOrder(i)

\* ------------------------------------------------------------------------
\* The Wallet of a chain (src/wallet, not part of the sources at hand),
\* modelled from section 4.4 of the specification.  SubmitQueue.handleOrder
\* reaches it through wallet.submitTransaction.
\* ------------------------------------------------------------------------

\* The requests the wallet receives.
RequestIds == {1, 2, 3}

\* wallet.requests[r]: the request r, the nonce it was given when accepted
\* and the repricings made for it; wallet.accepted: the requests in the
\* order of their acceptance; wallet.transactions: the transactions sent,
\* in order, each with its nonce.
NoRequest == [state |-> "none", nonce |-> Undefined, reprices |-> 0]

WalletInit ==
    wallet = [nonce |-> 0,                 \* the next nonce to assign
              stalled |-> FALSE,
              requests |-> [r \in RequestIds |-> NoRequest],
              accepted |-> <<>>,
              transactions |-> <<>>]

\* The wallet accepts request r (wallet.submitTransaction): it is given the
\* next nonce and its transaction is sent.
submitTransaction(r) ==
    /\ wallet.requests[r].state = "none"
    /\ ~wallet.stalled
    /\ wallet' = [wallet EXCEPT
           !.nonce = @ + 1,
           !.requests[r] = [state |-> "pending", nonce |-> wallet.nonce,
                            reprices |-> 0],
           !.accepted = Append(@, r),
           !.transactions = Append(@, [request |-> r, nonce |-> wallet.nonce,
                                       kind |-> "original"])]
    /\ UNCHANGED <<storeVars, queueVars, submitter, scanner, collector, applied>>

\* The pending transaction of request r is mined.
ConfirmTransaction(r) ==
    /\ wallet.requests[r].state = "pending"
    /\ wallet' = [wallet EXCEPT !.requests[r].state = "confirmed"]
    /\ UNCHANGED <<storeVars, queueVars, submitter, scanner, collector, applied>>

\* The pending transaction of request r is not mined in time.
ConfirmationTimeout(r) ==
    /\ wallet.requests[r].state = "pending"
    /\ wallet' = [wallet EXCEPT !.requests[r].state = "timedOut"]
    /\ UNCHANGED <<storeVars, queueVars, submitter, scanner, collector, applied>>

\* Variant of ReplacementNonce: a replacement is given a new nonce.
ReplacementNonce_Fresh(r) == wallet.nonce

\* The nonce of a transaction that replaces the one of request r.
ReplacementNonce(r) == wallet.requests[r].nonce

\* The stuck transaction of request r is repriced and sent again.
RepriceTransaction(r) ==
    /\ wallet.requests[r].state = "timedOut"
    /\ wallet.requests[r].reprices < MaxReprices
    /\ wallet' = [wallet EXCEPT
           !.requests[r].state = "pending",
           !.requests[r].reprices = @ + 1,
           !.transactions = Append(@, [request |-> r,
                                       nonce |-> ReplacementNonce(r),
                                       kind |-> "repriced"])]
    /\ UNCHANGED <<storeVars, queueVars, submitter, scanner, collector, applied>>

\* Repricing is exhausted: a cancellation transaction is sent for the
\* stuck transaction of request r.
CancelTransaction(r) ==
    /\ wallet.requests[r].state = "timedOut"
    /\ wallet.requests[r].reprices >= MaxReprices
    /\ wallet' = [wallet EXCEPT
           !.requests[r].state = "cancelling",
           !.transactions = Append(@, [request |-> r,
                                       nonce |-> ReplacementNonce(r),
                                       kind |-> "cancel"])]
    /\ UNCHANGED <<storeVars, queueVars, submitter, scanner, collector, applied>>

\* The cancellation of request r is mined, or it fails and the wallet
\* stalls.
CancellationEnds(r) ==
    /\ wallet.requests[r].state = "cancelling"
    /\ \/ wallet' = [wallet EXCEPT !.requests[r].state = "cancelled"]
       \/ wallet' = [wallet EXCEPT !.requests[r].state = "failed",
                                   !.stalled = TRUE]
    /\ UNCHANGED <<storeVars, queueVars, submitter, scanner, collector, applied>>

NextWallet ==
    \E r \in RequestIds :
        \/ submitTransaction(r)
        \/ ConfirmTransaction(r)
        \/ ConfirmationTimeout(r)
        \/ RepriceTransaction(r)
        \/ CancelTransaction(r)
        \/ CancellationEnds(r)

\* ------------------------------------------------------------------------
\* The block-window scanners: MockCollectorWorker.run and
\* SendMessageSnifferWorker.run (layerZero-message-sniffer-worker.ts).  The
\* two loops are the same statement for statement (startBlock / endBlock of
\* the first are fromBlock / toBlock of the second); the model follows
\* MockCollectorWorker.
\* ------------------------------------------------------------------------

\* stoppingBlock ?? Infinity
Infinity == 1000000

\* The block numbers a MonitorStatus reports.
Blocks == 0 .. MaxBlock

\* workerData: startingBlock, stoppingBlock and maxBlocks, each Undefined
\* when not configured.
StartingBlocks == {Undefined, 0, 1, 2}
StoppingBlocks == {Undefined, 0, 1, 3}
MaxBlocksValues == {Undefined, 0, 1, 2}

\* The number of logs a getLogs answer holds.
LogCounts == {0, 2}

\* The catch-up scenarios: a worker that starts far behind the tip.
CatchUpStartingBlocks == {100, 250}
CatchUpStoppingBlocks == {Undefined, 500}
CatchUpMaxBlocksValues == {50, 100}
CatchUpBlocks == {500}

ScannerInit ==
    scanner = [pc |-> "new",
               startingBlock |-> Undefined,
               stoppingBlock |-> Undefined,
               maxBlocks |-> Undefined,
               currentStatus |-> JsNull,   \* blockNumber of the last status
               firstTip |-> JsNull,        \* history: tip read by line 525
               startBlock |-> JsNull,
               endBlock |-> JsNull,
               tip |-> JsNull,             \* history: tip read by line 536
               try |-> 0,                  \* i of queryLogs
               windows |-> <<>>,           \* history: the answered getLogs
               logs |-> 0,                 \* logs.length of the answer
               handled |-> <<>>,           \* outcome of each handled log
               monitorClosed |-> 0,        \* calls of monitor.close
               storeQuit |-> 0]            \* calls of store.quit

\* The constructor with its workerData drawn from the given sets: the
\* worker reads its workerData and starts listening to the monitor.
Constructor(startingBlocks, stoppingBlocks, maxBlocksValues) ==
    /\ scanner.pc = "new"
    /\ \E startingBlock \in startingBlocks, stoppingBlock \in stoppingBlocks,
          maxBlocks \in maxBlocksValues :
          scanner' = [scanner EXCEPT !.pc = "init",
                                     !.startingBlock = startingBlock,
                                     !.stoppingBlock = stoppingBlock,
                                     !.maxBlocks = maxBlocks]
    /\ UNCHANGED <<storeVars, queueVars, submitter, wallet, collector, applied>>

\* The constructor of a worker near the tip.
MockCollectorWorker ==
    Constructor(StartingBlocks, StoppingBlocks, MaxBlocksValues)

\* The constructor of a worker that has to catch up.
MockCollectorWorkerCatchUp ==
    Constructor(CatchUpStartingBlocks, CatchUpStoppingBlocks,
                CatchUpMaxBlocksValues)

\* The monitor's listener, lines 498-506: a MonitorStatus with a new tip
\* among the given blocks arrives.
OnMonitorStatus(blocks) ==
    /\ scanner.pc \in {"init", "loop", "query", "process"}
    /\ \E blockNumber \in blocks :
          /\ scanner.currentStatus # JsNull =>
                blockNumber > scanner.currentStatus
          /\ scanner' = [scanner EXCEPT !.currentStatus = blockNumber]
    /\ UNCHANGED <<storeVars, queueVars, submitter, wallet, collector, applied>>

\* The monitor's listener of a worker near the tip.
MonitorListener == OnMonitorStatus(Blocks)

\* The monitor's listener of a worker that has to catch up.
MonitorListenerCatchUp == OnMonitorStatus(CatchUpBlocks)

\* run, lines 519-530: startBlock is set once a MonitorStatus has arrived.
InitStartBlock ==
    /\ scanner.pc = "init"
    /\ scanner.currentStatus # JsNull
    /\ scanner' = [scanner EXCEPT
           !.pc = "loop",
           !.firstTip = scanner.currentStatus,
           !.startBlock = NullishCoalescing(scanner.startingBlock,
                                            scanner.currentStatus)]
    /\ UNCHANGED <<storeVars, queueVars, submitter, wallet, collector, applied>>

\* run, line 532.
StopBlock == NullishCoalescing(scanner.stoppingBlock, Infinity)

\* Variant of EndBlock: a window holds maxBlocks blocks, not maxBlocks + 1.
EndBlock_Exclusive(startBlock, blockNumber, stopBlock, maxBlocks) ==
    LET endBlock == IF blockNumber > stopBlock THEN stopBlock
                    ELSE blockNumber
    IN  IF maxBlocks \notin {Undefined, JsNull}
           /\ endBlock - startBlock > maxBlocks - 1
        THEN startBlock + maxBlocks - 1
        ELSE endBlock

\* Variant of EndBlock: the stopping block is not taken into account.
EndBlock_NoStop(startBlock, blockNumber, stopBlock, maxBlocks) ==
    IF maxBlocks \notin {Undefined, JsNull}
       /\ blockNumber - startBlock > maxBlocks
    THEN startBlock + maxBlocks
    ELSE blockNumber

\* run, lines 536-551: the endBlock of the window that starts at
\* startBlock when the monitor's tip is blockNumber.
EndBlock(startBlock, blockNumber, stopBlock, maxBlocks) ==
    LET endBlock == IF blockNumber > stopBlock THEN stopBlock
                    ELSE blockNumber
    IN  IF maxBlocks \notin {Undefined, JsNull}
           /\ endBlock - startBlock > maxBlocks
        THEN startBlock + maxBlocks
        ELSE endBlock

\* run, lines 536-561: an iteration that does not wait issues getLogs for
\* startBlock .. endBlock.
ScanIteration ==
    /\ scanner.pc = "loop"
    /\ scanner.currentStatus \notin {JsNull, 0}
    /\ ~(scanner.startBlock > scanner.currentStatus)
    /\ scanner' = [scanner EXCEPT
           !.pc = "query",
           !.tip = scanner.currentStatus,
           !.try = 0,
           !.logs = 0,
           !.handled = <<>>,
           !.endBlock = EndBlock(scanner.startBlock, scanner.currentStatus,
                                 StopBlock, scanner.maxBlocks)]
    /\ UNCHANGED <<storeVars, queueVars, submitter, wallet, collector, applied>>

\* Variant of GetLogsThrows: a rejected getLogs counts as an empty answer
\* and the window is given up.
GetLogsThrows_GivesUp ==
    /\ scanner.pc = "query"
    /\ scanner.try < MaxGetLogsFailures
    /\ scanner' = [scanner EXCEPT !.try = @ + 1, !.pc = "process",
                                  !.logs = 0, !.handled = <<>>]
    /\ UNCHANGED <<storeVars, queueVars, submitter, wallet, collector, applied>>

\* queryLogs, lines 610-629: provider.getLogs is rejected; the same query
\* is made again after retryInterval.
GetLogsThrows ==
    /\ scanner.pc = "query"
    /\ scanner.try < MaxGetLogsFailures
    /\ scanner' = [scanner EXCEPT !.try = @ + 1]
    /\ UNCHANGED <<storeVars, queueVars, submitter, wallet, collector, applied>>

\* Variant of NextStartBlock: the last block of a window is scanned again.
NextStartBlock_Overlap(endBlock) == endBlock

\* run, line 571.
NextStartBlock(endBlock) == endBlock + 1

\* queryLogs, lines 610-631: provider.getLogs answers with its logs.
GetLogsReturns ==
    /\ scanner.pc = "query"
    /\ \E n \in LogCounts :
          scanner' = [scanner EXCEPT
              !.windows = Append(@, <<scanner.startBlock, scanner.endBlock>>),
              !.pc = "process",
              !.logs = n,
              !.handled = <<>>]
    /\ UNCHANGED <<storeVars, queueVars, submitter, wallet, collector, applied>>

\* queryAndProcessEvents, lines 592-594: handleEvent returns for the next
\* log of the answer.
HandleEventReturns ==
    /\ scanner.pc = "process"
    /\ Len(scanner.handled) < scanner.logs
    /\ scanner' = [scanner EXCEPT !.handled = Append(@, "handled")]
    /\ UNCHANGED <<storeVars, queueVars, submitter, wallet, collector, applied>>

\* Variant of HandleEventThrows: the error of a log is not caught; it
\* reaches the catch of run, which queries the window again.
HandleEventThrows_Uncaught ==
    /\ scanner.pc = "process"
    /\ Len(scanner.handled) < scanner.logs
    /\ Len(scanner.windows) <= MaxBlock
    /\ scanner' = [scanner EXCEPT !.pc = "loop", !.logs = 0,
                                  !.handled = <<>>]
    /\ UNCHANGED <<storeVars, queueVars, submitter, wallet, collector, applied>>

\* queryAndProcessEvents, lines 592-600: handleEvent throws for the next
\* log of the answer; the error is caught and logged.
HandleEventThrows ==
    /\ scanner.pc = "process"
    /\ Len(scanner.handled) < scanner.logs
    /\ scanner' = [scanner EXCEPT !.handled = Append(@, "failed")]
    /\ UNCHANGED <<storeVars, queueVars, submitter, wallet, collector, applied>>

\* run, lines 563-571: every log of the answer was handled; the worker
\* leaves its loop (line 563) or moves its window (line 571).
WindowProcessed ==
    /\ scanner.pc = "process"
    /\ Len(scanner.handled) = scanner.logs
    /\ scanner' = [scanner EXCEPT
           !.pc = IF scanner.endBlock >= StopBlock THEN "exit" ELSE "loop",
           !.startBlock = IF scanner.endBlock >= StopBlock THEN @
                          ELSE NextStartBlock(scanner.endBlock)]
    /\ UNCHANGED <<storeVars, queueVars, submitter, wallet, collector, applied>>

\* Variant of CloseMonitorAndQuitStore: the store connection is left open.
CloseMonitorAndQuitStore_MonitorOnly ==
    /\ scanner.pc = "exit"
    /\ scanner' = [scanner EXCEPT !.pc = "done", !.monitorClosed = @ + 1]
    /\ UNCHANGED <<storeVars, queueVars, submitter, wallet, collector, applied>>

\* run, lines 582-583: the clean up after the loop.
CloseMonitorAndQuitStore ==
    /\ scanner.pc = "exit"
    /\ scanner' = [scanner EXCEPT !.pc = "done",
                                  !.monitorClosed = @ + 1,
                                  !.storeQuit = @ + 1]
    /\ UNCHANGED <<storeVars, queueVars, submitter, wallet, collector, applied>>

NextScanner ==
    \/ MockCollectorWorker
    \/ MonitorListener
    \/ InitStartBlock
    \/ ScanIteration
    \/ GetLogsThrows
    \/ GetLogsReturns
    \/ HandleEventReturns
    \/ HandleEventThrows
    \/ WindowProcessed
    \/ CloseMonitorAndQuitStore

\* A worker that has to catch up.
NextCatchUp ==
    \/ MockCollectorWorkerCatchUp
    \/ MonitorListenerCatchUp
    \/ InitStartBlock
    \/ ScanIteration
    \/ GetLogsThrows
    \/ GetLogsReturns
    \/ HandleEventReturns
    \/ HandleEventThrows
    \/ WindowProcessed
    \/ CloseMonitorAndQuitStore

\* ------------------------------------------------------------------------
\* The event handlers of the collector workers
\* ------------------------------------------------------------------------

\* The messageIdentifiers of the logs.
EventIds == {1, 2}

\* amb.destinationChain as the digits of its hexadecimal form (0x01, 0x0a,
\* 0x10).
DestinationChains == {<<0, 1>>, <<0, 10>>, <<1, 0>>}

\* config.incentivesAddress, and the senders of the packets.
incentivesAddress == "0xA1"
Senders == {"0xA1", "0xB2"}

\* packet.guid.
Guid == 5

\* The methods of the Store and of the resolver a handler awaits.
AwaitedCalls == {"getTransactionBlockNumber", "setAmb",
                 "registerDestinationAddress", "submitProof",
                 "setPayloadLayerZeroAmb"}

NoLog == [messageIdentifier |-> 0, destinationChain |-> <<>>,
          sender |-> "none"]

NoAmb == [messageIdentifier |-> 0, amb |-> "none", destinationChain |-> <<>>,
          sourceEscrow |-> "none"]

CollectorInit ==
    collector = [pc |-> "idle",      \* the call the handler awaits
                 worker |-> "none",  \* the worker whose handler runs
                 event |-> 0,        \* number of logs handed to a handler
                 log |-> NoLog,      \* the decoded log being handled
                 calls |-> <<>>]     \* history: the calls that have ended

\* BigInt(hex): the value of a hexadecimal string.
RECURSIVE BigInt(_)
BigInt(hex) ==
    IF hex = <<>> THEN 0
    ELSE 16 * BigInt(SubSeq(hex, 1, Len(hex) - 1)) + hex[Len(hex)]

\* BigInt.prototype.toString: the decimal digits of n.
RECURSIVE BigIntToString(_)
BigIntToString(n) ==
    IF n < 10 THEN <<n>>
    ELSE BigIntToString(n \div 10) \o <<n % 10>>

\* common/utils: convertHexToDecimal.
convertHexToDecimal(hex) == BigIntToString(BigInt(hex))

\* Store.submitProof: the channel submit-<chainId> it publishes on.
SubmitChannel(chainId) == <<"submit", chainId>>

\* calculatePayloadHash: keccak256 of (guid, message), as a pairing that
\* is injective on the values at hand.
calculatePayloadHash(guid, message) == guid * 16 + message

\* Store.setAmb: the key relayer:amb:<messageIdentifier>, named by its
\* messageIdentifier.
AmbKey(messageIdentifier) == messageIdentifier

\* Store.setPayloadLayerZeroAmb: the key of the secondary record, named by
\* its payload hash.
PayloadAmbKey(payloadHash) == payloadHash

\* A call of the handler that has ended.
EndedCall(method, outcome, key, amb, emitToChannel) ==
    [event |-> collector.event, worker |-> collector.worker,
     method |-> method, outcome |-> outcome, key |-> key, amb |-> amb,
     channel |-> emitToChannel]

\* handleMockMessage, lines 668-676: the AmbMessage of the log.
MockAmb ==
    [messageIdentifier |-> collector.log.messageIdentifier,
     amb |-> "mock",
     destinationChain |-> collector.log.destinationChain,
     sourceEscrow |-> incentivesAddress]

\* handleLogPacketSentEvent, lines 278-290 and 300-312: the AmbMessage of
\* the packet.
LayerZeroAmb ==
    [messageIdentifier |-> collector.log.messageIdentifier,
     amb |-> "LayerZero",
     destinationChain |-> collector.log.destinationChain,
     sourceEscrow |-> collector.log.sender]

\* handleLogPacketSentEvent, lines 300-312: the record written under the
\* payload hash.
SecondaryAmb == LayerZeroAmb

\* handleEvent and handleMockMessage up to line 680: a Message log is
\* parsed and decoded, and setAmb is called.
handleEvent(messageIdentifier, destinationChain) ==
    /\ collector.pc = "idle"
    /\ collector.event < MaxEvents
    /\ collector' = [collector EXCEPT
           !.pc = "setAmb",
           !.worker = "mock",
           !.event = @ + 1,
           !.log = [messageIdentifier |-> messageIdentifier,
                    destinationChain |-> destinationChain,
                    sender |-> incentivesAddress]]
    /\ UNCHANGED <<storeVars, queueVars, submitter, wallet, scanner, applied>>

\* handleEvent, lines 640-654: the log is not parsed or is no Message
\* event; also decodeMockMessage throwing at line 668.
handleEventReturnsEarly ==
    /\ collector.pc = "idle"
    /\ collector.event < MaxEvents
    /\ collector' = [collector EXCEPT !.worker = "mock", !.event = @ + 1,
                                      !.log = NoLog]
    /\ UNCHANGED <<storeVars, queueVars, submitter, wallet, scanner, applied>>

\* Variant of SenderIsIncentives: every packet is taken.
SenderIsIncentives_Always(sender) == TRUE

\* handleLogPacketSentEvent, line 262.
SenderIsIncentives(sender) == sender = incentivesAddress

\* handleLogPacketSentEvent, lines 240-272: a PacketSent log is parsed and
\* decoded; for a packet of the incentives contract the block number of
\* the transaction is asked for.
handleLogPacketSentEvent(messageIdentifier, destinationChain, sender) ==
    /\ collector.pc = "idle"
    /\ collector.event < MaxEvents
    /\ collector' = [collector EXCEPT
           !.pc = IF SenderIsIncentives(sender)
                  THEN "getTransactionBlockNumber" ELSE "idle",
           !.worker = "layerZero",
           !.event = @ + 1,
           !.log = [messageIdentifier |-> messageIdentifier,
                    destinationChain |-> destinationChain,
                    sender |-> sender]]
    /\ UNCHANGED <<storeVars, queueVars, submitter, wallet, scanner, applied>>

\* handleLogPacketSentEvent, lines 240-251 and 319-331: parseLog returns
\* null, or decodePacket or decodeMessageWithContext throws.
handleLogPacketSentEventThrows ==
    /\ collector.pc = "idle"
    /\ collector.event < MaxEvents
    /\ collector' = [collector EXCEPT !.worker = "layerZero",
                                      !.event = @ + 1, !.log = NoLog]
    /\ UNCHANGED <<storeVars, queueVars, submitter, wallet, scanner, applied>>

\* Variant of AwaitRejects: the rejection is swallowed and the handler
\* goes on with its last call.
AwaitRejects_Swallowed ==
    /\ collector.pc \in AwaitedCalls
    /\ collector.pc \notin {"submitProof", "setPayloadLayerZeroAmb"}
    /\ collector' = [collector EXCEPT
           !.pc = IF collector.worker = "mock" THEN "submitProof"
                  ELSE "setPayloadLayerZeroAmb",
           !.calls = Append(@, EndedCall(collector.pc, "rejected", 0, NoAmb,
                                         <<>>))]
    /\ UNCHANGED <<storeVars, queueVars, submitter, wallet, scanner, applied>>

\* The awaited call is rejected: the handler is left with the error
\* (caught at lines 596-600, or 319-331 for the sniffer).
AwaitRejects ==
    /\ collector.pc \in AwaitedCalls
    /\ collector' = [collector EXCEPT
           !.pc = "idle",
           !.calls = Append(@, EndedCall(collector.pc, "rejected", 0, NoAmb,
                                         <<>>))]
    /\ UNCHANGED <<storeVars, queueVars, submitter, wallet, scanner, applied>>

\* handleLogPacketSentEvent, lines 272-274.
getTransactionBlockNumberResolves ==
    /\ collector.pc = "getTransactionBlockNumber"
    /\ collector' = [collector EXCEPT
           !.pc = "setAmb",
           !.calls = Append(@, EndedCall("getTransactionBlockNumber",
                                         "resolved", 0, NoAmb, <<>>))]
    /\ UNCHANGED <<storeVars, queueVars, submitter, wallet, scanner, applied>>

\* Lines 680 and 277-292: the AmbMessage is stored under its
\* messageIdentifier.
setAmbResolves ==
    /\ collector.pc = "setAmb"
    /\ LET amb == IF collector.worker = "mock" THEN MockAmb ELSE LayerZeroAmb
       IN  collector' = [collector EXCEPT
               !.pc = IF collector.worker = "mock"
                      THEN "registerDestinationAddress"
                      ELSE "setPayloadLayerZeroAmb",
               !.calls = Append(@, EndedCall("setAmb", "resolved",
                                             AmbKey(amb.messageIdentifier),
                                             amb, <<>>))]
    /\ UNCHANGED <<storeVars, queueVars, submitter, wallet, scanner, applied>>

\* handleMockMessage, lines 683-686.
registerDestinationAddressResolves ==
    /\ collector.pc = "registerDestinationAddress"
    /\ collector' = [collector EXCEPT
           !.pc = "submitProof",
           !.calls = Append(@, EndedCall("registerDestinationAddress",
                                         "resolved",
                                         MockAmb.messageIdentifier, NoAmb,
                                         <<>>))]
    /\ UNCHANGED <<storeVars, queueVars, submitter, wallet, scanner, applied>>

\* handleMockMessage, lines 696-716: the AmbPayload is published on
\* submit-<destinationChainId>.
submitProofResolves ==
    /\ collector.pc = "submitProof"
    /\ LET destinationChainId == convertHexToDecimal(MockAmb.destinationChain)
       IN  collector' = [collector EXCEPT
               !.pc = "idle",
               !.calls = Append(@, EndedCall("submitProof", "resolved",
                                   MockAmb.messageIdentifier, NoAmb,
                                   SubmitChannel(destinationChainId)))]
    /\ UNCHANGED <<storeVars, queueVars, submitter, wallet, scanner, applied>>

\* handleLogPacketSentEvent, lines 295-313: the same fields are stored
\* under the payload hash.
setPayloadLayerZeroAmbResolves ==
    /\ collector.pc = "setPayloadLayerZeroAmb"
    /\ collector' = [collector EXCEPT
           !.pc = "idle",
           !.calls = Append(@, EndedCall("setPayloadLayerZeroAmb", "resolved",
                                   PayloadAmbKey(calculatePayloadHash(Guid,
                                       collector.log.messageIdentifier)),
                                   SecondaryAmb, <<>>))]
    /\ UNCHANGED <<storeVars, queueVars, submitter, wallet, scanner, applied>>

NextCollector ==
    \/ \E messageIdentifier \in EventIds,
          destinationChain \in DestinationChains :
          \/ handleEvent(messageIdentifier, destinationChain)
          \/ \E sender \in Senders :
                handleLogPacketSentEvent(messageIdentifier, destinationChain,
                                         sender)
    \/ handleEventReturnsEarly
    \/ handleLogPacketSentEventThrows
    \/ AwaitRejects
    \/ getTransactionBlockNumberResolves
    \/ setAmbResolves
    \/ registerDestinationAddressResolves
    \/ submitProofResolves
    \/ setPayloadLayerZeroAmbResolves

\* ------------------------------------------------------------------------
\* Functions of the relayer applied to an input
\* ------------------------------------------------------------------------

\* state is "none", then "called" with the input, then "returned" with the
\* output.
AppliedInit ==
    applied = [fn |-> "none", state |-> "none", input |-> <<>>,
               output |-> <<>>]

\* The inner GARP messages: a context byte, 72 bytes that differ from one
\* offset to the next, and a payload of ASCII bytes and of bytes that are
\* not UTF-8.
ContextBytes == 0 .. 255
FirstBytes == {0, 200}
PayloadBytes == {65, 255}
Payloads == {<<>>} \cup {<<b>> : b \in PayloadBytes}
                   \cup {<<b, c>> : b \in PayloadBytes, c \in PayloadBytes}

GarpMessage(context, first, payload) ==
    <<context>> \o [i \in 1 .. 72 |-> (first + i) % 256] \o payload

\* Uint8Array.prototype.slice(start, end), offsets counted from 0.
Slice(bytes, start, end) == SubSeq(bytes, start + 1, end)

\* ethers.hexlify: two hexadecimal digits for each byte.
RECURSIVE hexlify(_)
hexlify(bytes) ==
    IF bytes = <<>> THEN <<>>
    ELSE <<bytes[1] \div 16, bytes[1] % 16>> \o hexlify(Tail(bytes))

\* ethers.getAddress of a 20-byte hexadecimal string: the same digits in
\* checksum casing; the model's digits have no casing.
getAddress(address) == address

\* Number.prototype.toString(16): the hexadecimal digits of n.
RECURSIVE NumberToString16(_)
NumberToString16(n) ==
    IF n < 16 THEN <<n>>
    ELSE NumberToString16(n \div 16) \o <<n % 16>>

\* ethers.toUtf8String of bytes that are ASCII or 0xff: one character for
\* each ASCII byte; 0xff is no part of a UTF-8 string, and the function
\* throws.
Utf8Throws(bytes) == \E i \in 1 .. Len(bytes) : bytes[i] >= 128
toUtf8String(bytes) == bytes

\* decodeMessageWithContext, lines 371 and 383: (messageBytes[0] || '')
\* .toString(16); the byte 0 is falsy, and the string '' is its own
\* toString.
ContextOf(messageBytes) ==
    IF messageBytes[1] = 0 THEN <<>> ELSE NumberToString16(messageBytes[1])

\* decodeMessageWithContext, lines 367-389.
decodeMessageWithContext(messageBytes) ==
    IF Utf8Throws(Slice(messageBytes, 73, Len(messageBytes)))
    THEN [threw |-> TRUE, context |-> <<>>, messageIdentifier |-> <<>>,
          sender |-> <<>>, destination |-> <<>>, payload |-> <<>>]
    ELSE [threw |-> FALSE,
          context |-> ContextOf(messageBytes),
          messageIdentifier |-> hexlify(Slice(messageBytes, 1, 33)),
          sender |-> getAddress(hexlify(Slice(messageBytes, 33, 53))),
          destination |-> getAddress(hexlify(Slice(messageBytes, 53, 73))),
          payload |->
              toUtf8String(Slice(messageBytes, 73, Len(messageBytes)))]

\* handleLogPacketSentEvent, line 251: the message of a packet is handed
\* to decodeMessageWithContext.
CallDecodeMessageWithContext ==
    /\ applied.state = "none"
    /\ \E context \in ContextBytes, first \in FirstBytes,
          payload \in Payloads :
          applied' = [applied EXCEPT
              !.fn = "decodeMessageWithContext",
              !.state = "called",
              !.input = GarpMessage(context, first, payload)]
    /\ UNCHANGED <<storeVars, queueVars, submitter, wallet, scanner,
                   collector>>

\* decodeMessageWithContext returns or throws.
DecodeMessageWithContextEnds ==
    /\ applied.fn = "decodeMessageWithContext"
    /\ applied.state = "called"
    /\ applied' = [applied EXCEPT
           !.state = "returned",
           !.output = decodeMessageWithContext(applied.input)]
    /\ UNCHANGED <<storeVars, queueVars, submitter, wallet, scanner,
                   collector>>

NextDecode ==
    \/ CallDecodeMessageWithContext
    \/ DecodeMessageWithContextEnds

\* The defaults of the submitter (submitter.service.ts, lines 12-16).
RETRY_INTERVAL_DEFAULT == 30000
PROCESSING_INTERVAL_DEFAULT == 100
MAX_TRIES_DEFAULT == 3
NEW_ORDERS_DELAY_DEFAULT == 0

SubmitterParameters == {"newOrdersDelay", "retryInterval",
                        "processingInterval", "maxTries",
                        "maxPendingTransactions"}

DefaultOf(parameter) ==
    CASE parameter = "newOrdersDelay" -> NEW_ORDERS_DELAY_DEFAULT
      [] parameter = "retryInterval" -> RETRY_INTERVAL_DEFAULT
      [] parameter = "processingInterval" -> PROCESSING_INTERVAL_DEFAULT
      [] parameter = "maxTries" -> MAX_TRIES_DEFAULT
      [] parameter = "maxPendingTransactions" -> MAX_PENDING_TRANSACTIONS

\* The values a parameter has under chains[].submitter and under
\* relayer.submitter (Undefined when the key is not set).
ChainParameterValues == {Undefined, 0, 7}
GlobalParameterValues == {Undefined, 8}

\* The keys of a gasLimitBuffer map, and the maps of the configuration;
\* a key that is not set has the value Undefined.
BufferKeys == {"default", "mock", "wormhole"}
EmptyBuffer == [key \in BufferKeys |-> Undefined]
Buffer(default, mock, wormhole) ==
    [key \in BufferKeys |->
        CASE key = "default" -> default
          [] key = "mock" -> mock
          [] key = "wormhole" -> wormhole]
NotConfigured == [configured |-> FALSE, entries |-> EmptyBuffer]
Configured(entries) == [configured |-> TRUE, entries |-> entries]
GlobalBuffers == {NotConfigured,
                  Configured(EmptyBuffer),
                  Configured(Buffer(5, Undefined, Undefined)),
                  Configured(Buffer(Undefined, 3, 9)),
                  Configured(Buffer(5, 3, Undefined))}
ChainBuffers == {NotConfigured,
                 Configured(Buffer(Undefined, 4, Undefined)),
                 Configured(Buffer(6, Undefined, 2))}

\* submitterConfig.gasLimitBuffer ?? {}
BufferOrEmpty(gasLimitBuffer) ==
    IF gasLimitBuffer.configured THEN gasLimitBuffer.entries ELSE EmptyBuffer

\* loadGlobalSubmitterConfig, lines 102-134.
loadGlobalSubmitterConfig(submitterConfig) ==
    [parameters |->
        [parameter \in SubmitterParameters |->
            NullishCoalescing(submitterConfig.parameters[parameter],
                              DefaultOf(parameter))],
     gasLimitBuffer |->
        LET gasLimitBuffer == BufferOrEmpty(submitterConfig.gasLimitBuffer)
        IN  IF gasLimitBuffer["default"] = Undefined
            THEN [gasLimitBuffer EXCEPT !["default"] = 0]
            ELSE gasLimitBuffer]

\* Variant of getChainGasLimitBufferConfig: a chain with a map of its own
\* does not inherit the global entries.
getChainGasLimitBufferConfig_ChainOnly(defaultConfig, chainConfig) ==
    IF chainConfig = EmptyBuffer THEN defaultConfig ELSE chainConfig

\* getChainGasLimitBufferConfig, lines 204-221: the global entries, then
\* the chain's entries over them.
getChainGasLimitBufferConfig(defaultConfig, chainConfig) ==
    [key \in BufferKeys |->
        IF chainConfig[key] # Undefined THEN chainConfig[key]
        ELSE defaultConfig[key]]

\* loadWorkerData, lines 177-196: the submitter parameters of the
\* workerData.
WorkerData(chainConfig, globalConfig) ==
    [parameters |->
        [parameter \in SubmitterParameters |->
            NullishCoalescing(chainConfig.parameters[parameter],
                              globalConfig.parameters[parameter])],
     gasLimitBuffer |->
        getChainGasLimitBufferConfig(globalConfig.gasLimitBuffer,
            BufferOrEmpty(chainConfig.gasLimitBuffer))]

\* onModuleInit: loadWorkerData is called for a chain of the
\* configuration file.
CallLoadWorkerData ==
    /\ applied.state = "none"
    /\ \E chainParameters \in [SubmitterParameters -> ChainParameterValues],
          globalParameters \in [SubmitterParameters -> GlobalParameterValues],
          chainBuffer \in ChainBuffers, globalBuffer \in GlobalBuffers :
          applied' = [applied EXCEPT
              !.fn = "loadWorkerData",
              !.state = "called",
              !.input = [chain |-> [parameters |-> chainParameters,
                                    gasLimitBuffer |-> chainBuffer],
                         global |-> [parameters |-> globalParameters,
                                     gasLimitBuffer |-> globalBuffer]]]
    /\ UNCHANGED <<storeVars, queueVars, submitter, wallet, scanner,
                   collector>>

\* loadWorkerData returns the workerData.
LoadWorkerDataReturns ==
    /\ applied.fn = "loadWorkerData"
    /\ applied.state = "called"
    /\ applied' = [applied EXCEPT
           !.state = "returned",
           !.output = WorkerData(applied.input.chain,
                          loadGlobalSubmitterConfig(applied.input.global))]
    /\ UNCHANGED <<storeVars, queueVars, submitter, wallet, scanner,
                   collector>>

NextConfig ==
    \/ CallLoadWorkerData
    \/ LoadWorkerDataReturns

Init ==
    /\ StoreInit /\ QueueInit /\ SubmitterInit /\ WalletInit /\ ScannerInit
    /\ CollectorInit /\ AppliedInit

\* Sequential use of the Store: every register* call runs to completion.
NextSeq ==
    \E w \in Workers :
        \/ registerBountyPlaced(w)
        \/ registerMessageDelivered(w)
        \/ registerBountyClaimed(w)
        \/ registerBountyIncreased(w)

SpecSeq == Init /\ [][NextSeq]_vars

\* Concurrent use of the Store by the workers.
NextStore ==
    \/ \E w \in Workers :
          \/ GetBountyPlaced(w)
          \/ GetMessageDelivered(w)
          \/ GetBountyClaimed(w)
          \/ GetBountyIncreased(w)
          \/ Del(w)
          \/ RedisWrite(w)
          \/ PostMessage(w)
          \/ RedisError(w)
    \/ Receive

SpecStore == Init /\ [][NextStore]_vars

\* The queues.
NextQueue ==
    \/ \E o \in OrderIds :
          \/ addOrders(o)
          \/ handleOrder(o)
          \/ ProviderCallReturns(o)
          \/ ProviderCallThrows(o)
          \/ WalletResponds(o)
          \/ GenericHandleOrder(o)
          \/ GenericHandleOrderEnds(o)
          \/ CompetitorDelivers(o)
    \/ Tick

SpecQueue == Init /\ [][NextQueue]_vars

\* The queue is processed at every processingInterval, timers fire, and the
\* provider and the wallet answer every request.
QueueFairness ==
    /\ WF_vars(Tick)
    /\ \A o \in OrderIds :
          /\ WF_vars(handleOrder(o))
          /\ WF_vars(ProviderCallReturns(o) \/ ProviderCallThrows(o))
          /\ WF_vars(WalletResponds(o))
          /\ WF_vars(GenericHandleOrder(o))
          /\ WF_vars(GenericHandleOrderEnds(o))

LiveSpecQueue == SpecQueue /\ QueueFairness

\* The dispatcher of a chain's Submitter.
SpecSubmitter == Init /\ [][NextSubmitter]_vars

\* The Wallet of a chain.
SpecWallet == Init /\ [][NextWallet]_vars

\* A block-window scanner.
SpecScanner == Init /\ [][NextScanner]_vars

\* The loop of run is not suspended for ever: its waits end, the provider
\* answers getLogs in the end, handleEvent ends and the clean up runs.
\* The monitor is not bound to report a new block.
ScannerFairness ==
    /\ WF_vars(InitStartBlock)
    /\ WF_vars(ScanIteration)
    /\ WF_vars(GetLogsReturns)
    /\ WF_vars(HandleEventReturns \/ HandleEventThrows)
    /\ WF_vars(WindowProcessed)
    /\ WF_vars(CloseMonitorAndQuitStore)

LiveSpecScanner == SpecScanner /\ ScannerFairness

\* The submitter configuration of a chain's worker.
SpecConfig == Init /\ [][NextConfig]_vars

\* decodeMessageWithContext applied to the inner messages.
SpecDecode == Init /\ [][NextDecode]_vars

\* The event handlers of the collector workers.
SpecCollector == Init /\ [][NextCollector]_vars

\* A block-window scanner that starts far behind the tip.
SpecCatchUp == Init /\ [][NextCatchUp]_vars

\* ------------------------------------------------------------------------
\* Properties of the Store
\* ------------------------------------------------------------------------

\* The document stored for m (when there is one).
Doc(m) == db[BountyKey(m)][1]

Present(v) == v # Undefined /\ v # JsNull

\* The status a register* method writes.
StatusWrittenBy(op) ==
    CASE op = "placed" -> BountyPlaced
      [] op = "delivered" -> MessageDelivered
      [] op = "claimed" -> BountyClaimed

\* The largest status written by the methods of S.
MaxStatusWritten(S) ==
    CHOOSE s \in {StatusWrittenBy(op) : op \in S} :
        \A op \in S : StatusWrittenBy(op) <= s

\* C1: after any sequence of registerBountyPlaced, registerMessageDelivered
\* and registerBountyClaimed calls on an identifier, each run to completion,
\* the stored status is the maximum of the statuses these calls write,
\* whatever their order.
C1_FinalStatusIsMaximum ==
    \A m \in MessageIds :
        (seen[m] # {} /\ seen[m] \subseteq {"placed", "delivered", "claimed"})
        => /\ db[BountyKey(m)] # <<>>
           /\ Doc(m)["status"] = MaxStatusWritten(seen[m])

\* C1 witness: BountyClaimed and MessageDelivered were registered before
\* BountyPlaced, and the status is BountyClaimed.
C1_Witness ==
    \E m \in MessageIds :
        /\ seen[m] = {"placed", "delivered", "claimed"}
        /\ last.op = "placed"
        /\ last.existingValue # <<>>
        /\ last.existingValue[1]["status"] = BountyClaimed
        /\ Doc(m)["status"] = BountyClaimed

\* C2: along every execution of register* calls on an identifier the
\* stored status never changes from a status to a lower one.
C2_StatusNeverDecreases ==
    [][\A m \in MessageIds :
          ( /\ "del" \notin seen'[m]
            /\ db[BountyKey(m)] # <<>>
            /\ Doc(m)["status"] \in Statuses )
          => /\ db'[BountyKey(m)] # <<>>
             /\ db'[BountyKey(m)][1]["status"] \in Statuses
             /\ db'[BountyKey(m)][1]["status"] >= Doc(m)["status"]]_vars

\* The fields a register* method writes (registerBountyIncreased aside).
FieldsWrittenBy(op) ==
    CASE op = "placed" ->
            {"fromChainId", "maxGasDelivery", "maxGasAck", "refundGasTo",
             "priceOfDeliveryGas", "priceOfAckGas", "targetDelta", "status",
             "address", "finalised", "submitTransactionHash"}
      [] op = "delivered" -> {"status", "execTransactionHash", "toChainId"}
      [] op = "claimed" -> {"status", "ackTransactionHash", "fromChainId"}

\* C3: when register* calls of different workers for one identifier
\* interleave between their read and their write, no update is lost: once
\* the calls have returned the document holds the maximum status of the
\* calls and every field written by any of them.
C3_NoUpdateLost ==
    \A m \in MessageIds :
        ( /\ \A w \in Workers : call[w].pc = "idle"
          /\ seen[m] # {}
          /\ seen[m] \subseteq {"placed", "delivered", "claimed"} )
        => /\ db[BountyKey(m)] # <<>>
           /\ Doc(m)["status"] = MaxStatusWritten(seen[m])
           /\ \A op \in seen[m] :
                  \A f \in FieldsWrittenBy(op) : Present(Doc(m)[f])

\* The stored price, an absent one counting as 0.
StoredPrice(value, f) ==
    IF value = <<>> THEN 0 ELSE BigNumberFromOrZero(value[1][f])

\* C4 as stated: after registerBountyIncreased calls, in any order with the
\* other register* calls, each stored price equals the maximum of the prices
\* handed to registerBountyIncreased.
C4_PriceIsMaximumObserved ==
    \A m \in MessageIds :
        "increased" \in seen[m]
        => /\ StoredPrice(db[BountyKey(m)], "priceOfDeliveryGas")
                = prices[m].increasedDelivery
           /\ StoredPrice(db[BountyKey(m)], "priceOfAckGas")
                = prices[m].increasedAck

\* C4 amended: after registerBountyIncreased calls, each stored price (0 if
\* none is stored) is the maximum of the prices handed to
\* registerBountyIncreased and of the price registerBountyPlaced stored,
\* and no register* call lowers a stored price.
C4_PriceIsMaximumOfIncreasedAndPlaced ==
    \A m \in MessageIds :
        /\ "increased" \in seen[m]
           => /\ StoredPrice(db[BountyKey(m)], "priceOfDeliveryGas")
                   = Max(prices[m].increasedDelivery,
                         Max(prices[m].placedDelivery, 0))
              /\ StoredPrice(db[BountyKey(m)], "priceOfAckGas")
                   = Max(prices[m].increasedAck, Max(prices[m].placedAck, 0))
        /\ last.op # "none"
           => /\ StoredPrice(db[BountyKey(m)], "priceOfDeliveryGas")
                   >= StoredPrice(last.existingValue, "priceOfDeliveryGas")
              /\ StoredPrice(db[BountyKey(m)], "priceOfAckGas")
                   >= StoredPrice(last.existingValue, "priceOfAckGas")

\* C4 witness: a registerBountyIncreased call brought a delivery price
\* below the largest one seen; the stored price is still the largest.
C4_Witness ==
    \E m \in MessageIds :
        /\ last.op = "increased"
        /\ last.sets
        /\ last.event.newDeliveryGasPrice < prices[m].increasedDelivery
        /\ prices[m].placedDelivery < prices[m].increasedDelivery
        /\ Doc(m)["priceOfDeliveryGas"] = prices[m].increasedDelivery

\* C5: a field that holds a non-null value before a register* call still
\* holds a non-null value after it.
C5_FieldsArePreserved ==
    \A m \in MessageIds :
        (last.op # "none" /\ last.existingValue # <<>>)
        => /\ db[BountyKey(m)] # <<>>
           /\ \A f \in Fields :
                  Present(last.existingValue[1][f]) => Present(Doc(m)[f])

\* C5 witness: registerMessageDelivered ran on a document holding the
\* fields of a BountyPlaced event, which it does not supply.
C5_Witness ==
    \E m \in MessageIds :
        /\ last.op = "delivered"
        /\ last.existingValue # <<>>
        /\ Present(last.existingValue[1]["submitTransactionHash"])
        /\ Present(last.existingValue[1]["priceOfDeliveryGas"])
        /\ Present(Doc(m)["submitTransactionHash"])

\* C6: when a document exists, registerBountyPlaced writes a document where
\* every field that is non-null in the stored one keeps its value, and only
\* fields missing from the stored one take the value built from the event.
C6_PlacedKeepsStoredFields ==
    \A m \in MessageIds :
        (last.op = "placed" /\ last.existingValue # <<>>)
        => /\ db[BountyKey(m)] # <<>>
           /\ \A f \in Fields :
                LET stored == last.existingValue[1][f]
                IN  /\ Present(stored) => Doc(m)[f] = stored
                    /\ Doc(m)[f] # stored
                       => /\ stored = Undefined
                          /\ Doc(m)[f] = FreshBounty(last.chainId, last.event)[f]

\* C6 witness: registerBountyPlaced of chain 1 ran on a document created by
\* registerBountyClaimed of chain 2; fromChainId stays, the prices fill in.
C6_Witness ==
    \E m \in MessageIds :
        /\ last.op = "placed"
        /\ last.existingValue # <<>>
        /\ last.existingValue[1]["fromChainId"] # last.chainId
        /\ last.existingValue[1]["fromChainId"] # Undefined
        /\ last.existingValue[1]["priceOfDeliveryGas"] = Undefined
        /\ Doc(m)["fromChainId"] = last.existingValue[1]["fromChainId"]
        /\ Doc(m)["priceOfDeliveryGas"] = last.event.priceOfDeliveryGas

\* The sparse document of a delivery whose bounty was not seen.
SparseDelivered(doc) ==
    /\ doc["status"] = MessageDelivered
    /\ {f \in Fields : doc[f] # Undefined}
         = {"messageIdentifier", "status", "execTransactionHash", "toChainId"}

\* C7: registerMessageDelivered on an identifier without document creates
\* exactly {messageIdentifier, status = MessageDelivered,
\* execTransactionHash, toChainId}; a later registerBountyPlaced fills in
\* the economic fields from its event and leaves the status.
C7_SparseThenPlaced ==
    \A m \in MessageIds :
        /\ (last.op = "delivered" /\ last.existingValue = <<>>)
           => db[BountyKey(m)] =
                <<Obj({<<"messageIdentifier", last.event.messageIdentifier>>,
                       <<"status", MessageDelivered>>,
                       <<"execTransactionHash", last.event.transactionHash>>,
                       <<"toChainId", last.chainId>>})>>
        /\ ( /\ last.op = "placed"
             /\ last.existingValue # <<>>
             /\ SparseDelivered(last.existingValue[1]) )
           => /\ Doc(m)["status"] = MessageDelivered
              /\ Doc(m)["execTransactionHash"]
                   = last.existingValue[1]["execTransactionHash"]
              /\ Doc(m)["toChainId"] = last.existingValue[1]["toChainId"]
              /\ \A f \in {"maxGasDelivery", "maxGasAck", "refundGasTo",
                           "priceOfDeliveryGas", "priceOfAckGas",
                           "targetDelta"} :
                     Doc(m)[f] = last.event[f]

\* C7 witness: registerBountyPlaced ran on the sparse document.
C7_Witness ==
    \E m \in MessageIds :
        /\ last.op = "placed"
        /\ last.existingValue # <<>>
        /\ SparseDelivered(last.existingValue[1])
        /\ Doc(m)["status"] = MessageDelivered
        /\ Doc(m)["priceOfAckGas"] = last.event.priceOfAckGas

\* C8: on an existing document registerBountyIncreased writes only if a
\* price strictly increased: otherwise no set, no notification, the
\* document is unchanged; when one price increased the other is kept.
C8_IncreasedWritesOnlyOnIncrease ==
    \A m \in MessageIds :
        (last.op = "increased" /\ last.existingValue # <<>>)
        => LET storedDelivery ==
                   StoredPrice(last.existingValue, "priceOfDeliveryGas")
               storedAck == StoredPrice(last.existingValue, "priceOfAckGas")
               deliveryUp == last.event.newDeliveryGasPrice > storedDelivery
               ackUp == last.event.newAckGasPrice > storedAck
           IN  /\ (~deliveryUp /\ ~ackUp)
                  => /\ ~last.sets
                     /\ last.published = 0
                     /\ db[BountyKey(m)] = last.existingValue
               /\ (deliveryUp \/ ackUp)
                  => /\ last.sets
                     /\ last.published = 1
               /\ ~deliveryUp
                  => StoredPrice(db[BountyKey(m)], "priceOfDeliveryGas")
                       = storedDelivery
               /\ ~ackUp
                  => StoredPrice(db[BountyKey(m)], "priceOfAckGas") = storedAck

\* C8 witness: registerBountyIncreased brought prices that are not above
\* the stored ones (the delivery price equal, the ack price lower).
C8_Witness ==
    \E m \in MessageIds :
        /\ last.op = "increased"
        /\ last.existingValue # <<>>
        /\ last.event.newDeliveryGasPrice
             = last.existingValue[1]["priceOfDeliveryGas"]
        /\ last.event.newDeliveryGasPrice > 0
        /\ last.event.newAckGasPrice < last.existingValue[1]["priceOfAckGas"]
        /\ ~last.sets
        /\ db[BountyKey(m)] = last.existingValue

\* Did the call run Store.set or Store.del?
RanSetOrDel(c) == c.ran

\* C9: a Store.set / Store.del that returns has published exactly one
\* notification; a notification is published only once the write is
\* applied, so a subscriber reading the key on receipt of a `set`
\* notification reads the value that set wrote or a later one; a call whose
\* write failed publishes nothing.
C9_NotificationAfterWrite ==
    /\ \A w \in Workers :
          /\ call[w].published <= 1
          /\ (call[w].result = "ok" /\ RanSetOrDel(call[w]))
             => call[w].published = 1
          /\ call[w].published = 1 => call[w].written # 0
          /\ call[w].result \in {"redis.set", "redis.del"}
             => call[w].published = 0
    /\ \A i \in 1 .. Len(channel) :
          /\ channel[i].written
          /\ channel[i].version <= version[channel[i].key]
    /\ received.action = "set"
       => /\ received.written
          /\ received.read >= received.version

\* C9 witness: a subscriber received the `set` notification of a call that
\* returned and read the key after another write had been applied.
C9_Witness ==
    /\ received.action = "set"
    /\ received.read > received.version
    /\ \E w \in Workers :
          /\ call[w].result = "ok"
          /\ call[w].op \in Ops
          /\ call[w].published = 1
          /\ call[w].written = received.version

\* ------------------------------------------------------------------------
\* Properties of the queues
\* ------------------------------------------------------------------------

Attempted(o) == orders'[o].attempts > orders[o].attempts

\* C11: an order is handed to handleOrder at most maxTries times; a failed
\* order that is retried becomes eligible retryInterval after its failure
\* (its wait starts at RetryTicks, goes down by one a tick, and the order
\* is attempted at zero only); after its maxTries-th failure
\* onOrderCompletion has been invoked with success = false, and a completed
\* order is never attempted again.
C11_AtMostMaxTries ==
    /\ [](\A o \in OrderIds :
            /\ orders[o].attempts <= maxTries
            /\ orders[o].failures <= orders[o].attempts
            /\ orders[o].failures = maxTries =>
                  /\ orders[o].state = "completed"
                  /\ completion[o] = <<[success |-> FALSE, result |-> JsNull,
                                        retryCount |-> maxTries - 1]>>)
    /\ [][\A o \in OrderIds :
            /\ orders'[o].retryCount > orders[o].retryCount =>
                  /\ orders'[o].retryCount = orders[o].retryCount + 1
                  /\ orders'[o].failures = orders[o].failures + 1
                  /\ orders'[o].wait = RetryTicks
            /\ orders'[o].wait < orders[o].wait =>
                  /\ orders'[o].wait = orders[o].wait - 1
                  /\ ~Attempted(o)
            /\ Attempted(o) => orders[o].wait = 0
            /\ orders[o].state = "completed" =>
                  /\ orders'[o] = orders[o]
                  /\ completion'[o] = completion[o]]_vars

\* C11 witness: a submit order failed maxTries times with a retryable
\* error and is completed without success.
C11_Witness ==
    \E o \in OrderIds :
        /\ orders[o].kind = "submit"
        /\ orders[o].failures = maxTries
        /\ orders[o].attempts = maxTries
        /\ orders[o].lastError = "TIMEOUT"
        /\ orders[o].state = "completed"
        /\ Len(completion[o]) = 1
        /\ ~completion[o][1].success

\* The steps in which the transactionRequest of order o is handed to the
\* wallet.
HandedToWallet(o) == orders'[o].sent > orders[o].sent

\* C12: SubmitQueue.handleOrder makes the static call before the wallet
\* request exactly when retryCount > 0 or requeueCount > 0; an attempt
\* whose static call fails hands nothing to the wallet; hence no
\* transaction is handed to the wallet by an attempt of a retried or
\* requeued order that starts after another relayer delivered the message,
\* and no second transaction of an order is sent once that delivery is
\* made.
C12_SimulationBeforeResubmission ==
    [][\A o \in OrderIds :
          orders'[o].kind = "submit" =>
            /\ orders'[o].sent \in {orders[o].sent, orders[o].sent + 1}
            /\ Attempted(o) =>
                  /\ orders'[o].state = "simulating" <=>
                        (orders[o].retryCount > 0 \/ orders[o].requeueCount > 0)
                  /\ orders'[o].state = "submitted" <=>
                        ~(orders[o].retryCount > 0 \/ orders[o].requeueCount > 0)
            /\ HandedToWallet(o) =>
                  /\ orders[o].state = "simulating" <=>
                        (orders[o].retryCount > 0 \/ orders[o].requeueCount > 0)
                  /\ orders[o].state = "simulating" => ~orders[o].relayed
                  /\ orders[o].sent >= 1 => ~orders[o].relayed
            /\ (/\ orders[o].state = "simulating"
                /\ orders'[o].state \notin {"simulating", "submitted"}) =>
                  /\ ~HandedToWallet(o)
                  /\ orders'[o].failures = orders[o].failures + 1]_vars

\* C12 witness: the second transaction of an order was handed to the wallet
\* after its static call, and the retry of another order, whose message a
\* competing relayer had delivered, ended at its static call.
C12_Witness ==
    \E o1, o2 \in OrderIds :
        /\ orders[o1].kind = "submit"
        /\ orders[o1].state = "submitted"
        /\ orders[o1].retryCount = 1
        /\ orders[o1].sent = 2
        /\ orders[o2].kind = "submit"
        /\ orders[o2].relayed
        /\ orders[o2].requeueCount = 0
        /\ orders[o2].attempts = 2
        /\ orders[o2].sent = 1
        /\ orders[o2].state = "completed"

\* C13: a submit order whose attempt fails with CALL_EXCEPTION is completed
\* without success at once, whatever tries remain, and is never attempted
\* again; after a failure with another error the order is retried as long
\* as tries remain.
C13_CallExceptionIsTerminal ==
    /\ [](\A o \in OrderIds :
            orders[o].kind = "submit" =>
              /\ orders[o].lastError = "CALL_EXCEPTION" =>
                    /\ orders[o].state = "completed"
                    /\ completion[o] =
                          <<[success |-> FALSE, result |-> JsNull,
                             retryCount |-> orders[o].retryCount]>>
              /\ (/\ orders[o].lastError \notin {"none", "CALL_EXCEPTION"}
                  /\ orders[o].failures < maxTries) =>
                    /\ orders[o].retryCount = orders[o].failures
                    /\ orders[o].state = "completed" =>
                          completion[o][1].success)
    /\ [][\A o \in OrderIds :
            (orders[o].kind = "submit"
               /\ orders[o].lastError = "CALL_EXCEPTION") =>
                  orders'[o] = orders[o]]_vars

\* C13 witness: the static call of a retry failed with CALL_EXCEPTION and
\* the order is completed with a try left, while another order, whose
\* static call failed with another error, is in the queue for its retry.
C13_Witness ==
    \E o1, o2 \in OrderIds :
        /\ orders[o1].kind = "submit"
        /\ orders[o1].lastError = "CALL_EXCEPTION"
        /\ orders[o1].retryCount = 1
        /\ orders[o1].sent = 1
        /\ orders[o1].failures = 2
        /\ orders[o1].state = "completed"
        /\ orders[o2].kind = "submit"
        /\ orders[o2].requeueCount = 1
        /\ orders[o2].lastError = "TIMEOUT"
        /\ orders[o2].sent = 0
        /\ orders[o2].state = "queued"
        /\ orders[o2].retryCount = 1

\* The first attempt of order o handed its transaction to the wallet and
\* timed out, and the static call of its second attempt failed with
\* CALL_EXCEPTION.
CollisionOnRetry(order) ==
    /\ order.kind = "submit"
    /\ order.requeueCount = 0
    /\ order.attempts = 2
    /\ order.sent = 1
    /\ order.failures = 2
    /\ order.lastError = "CALL_EXCEPTION"

\* C14: when the first submission attempt of an order times out and the
\* static call of the retry fails with CALL_EXCEPTION, the order is dropped:
\* it is completed without success, nothing more is handed to the wallet,
\* no registerDeliveryCost call is made and the bounty records are left as
\* they were.
C14_CollisionDropsOrder ==
    /\ [](\A o \in OrderIds :
            CollisionOnRetry(orders[o]) =>
              /\ orders[o].state = "completed"
              /\ costs[o] = <<>>
              /\ completion[o] = <<[success |-> FALSE, result |-> JsNull,
                                    retryCount |-> 1]>>)
    /\ [][\A o \in OrderIds :
            /\ (~CollisionOnRetry(orders[o]) /\ CollisionOnRetry(orders'[o])) =>
                  /\ orders[o].lastError = "TIMEOUT"
                  /\ db' = db
                  /\ costs' = costs
            /\ CollisionOnRetry(orders[o]) =>
                  /\ orders'[o] = orders[o]
                  /\ costs'[o] = costs[o]]_vars

\* C14 witness: a delivery order was dropped that way.
C14_Witness ==
    \E o \in OrderIds :
        /\ CollisionOnRetry(orders[o])
        /\ orders[o].isDelivery
        /\ orders[o].state = "completed"
        /\ costs[o] = <<>>

\* C15: store.registerDeliveryCost is called for a submit order if and
\* only if the order completed with success and a result and is a delivery,
\* and then once, with the gasUsed of the transaction receipt.
C15_DeliveryCostOfDeliveries ==
    \A o \in OrderIds :
        orders[o].kind = "submit" =>
            IF /\ orders[o].state = "completed"
               /\ completion[o][1].success
               /\ completion[o][1].result # JsNull
               /\ orders[o].isDelivery
            THEN /\ costs[o] = <<completion[o][1].result>>
                 /\ costs[o][1] \in GasUsedValues
            ELSE costs[o] = <<>>

\* C15 witness: a delivery completed with a receipt of gasUsed 150000 and
\* its cost is registered; an ack completed with success and none is.
C15_Witness ==
    \E o1, o2 \in OrderIds :
        /\ orders[o1].kind = "submit" /\ orders[o2].kind = "submit"
        /\ orders[o1].isDelivery
        /\ orders[o1].state = "completed"
        /\ completion[o1][1].success
        /\ costs[o1] = <<150000>>
        /\ ~orders[o2].isDelivery
        /\ orders[o2].state = "completed"
        /\ completion[o2][1].success
        /\ completion[o2][1].result = 21000
        /\ costs[o2] = <<>>

\* ------------------------------------------------------------------------
\* Properties of the Submitter's dispatcher
\* ------------------------------------------------------------------------

\* The effective maxPendingTransactions of the chain: the chain's own
\* setting, else the global one, else the default.
EffectiveMaxPendingTransactions ==
    IF submitter.chainConfig # Undefined THEN submitter.chainConfig
    ELSE IF submitter.globalConfig # Undefined THEN submitter.globalConfig
    ELSE MAX_PENDING_TRANSACTIONS

\* C16: the orders accepted into the pipeline and not yet completed are at
\* most the effective maxPendingTransactions of the chain, and no order is
\* accepted while that many are in the pipeline.
C16_PipelineWithinCap ==
    /\ [](submitter.loaded =>
            Len(submitter.pipeline) <= EffectiveMaxPendingTransactions)
    /\ [][Len(submitter'.pipeline) > Len(submitter.pipeline) =>
            /\ Len(submitter.pipeline) < EffectiveMaxPendingTransactions
            /\ Len(submitter'.pipeline) = Len(submitter.pipeline) + 1]_vars

\* C16 witness: the chain's setting (1) overrides the global one (2), one
\* order is in the pipeline and another one waits to be accepted.
C16_Witness ==
    /\ submitter.loaded
    /\ submitter.chainConfig = 1
    /\ submitter.globalConfig = 2
    /\ Len(submitter.pipeline) = 1
    /\ submitter.newOrdersQueue # <<>>

OriginalTransactions ==
    SelectSeq(wallet.transactions, LAMBDA tx : tx.kind = "original")

\* C18: the i-th request accepted has the i-th nonce, the nonces of the
\* transactions sent are contiguous and increase in the order of
\* acceptance, and a repricing or cancelling transaction has the nonce of
\* the transaction it replaces.
C18_NonceOrdering ==
    /\ \A i \in 1 .. Len(wallet.accepted) :
          wallet.requests[wallet.accepted[i]].nonce = i - 1
    /\ Len(OriginalTransactions) = Len(wallet.accepted)
    /\ \A i \in 1 .. Len(OriginalTransactions) :
          /\ OriginalTransactions[i].request = wallet.accepted[i]
          /\ OriginalTransactions[i].nonce = i - 1
    /\ {wallet.transactions[i].nonce : i \in 1 .. Len(wallet.transactions)}
          = 0 .. Len(wallet.accepted) - 1
    /\ \A i \in 1 .. Len(wallet.transactions) :
          LET tx == wallet.transactions[i]
          IN  /\ tx.nonce = wallet.requests[tx.request].nonce
              /\ tx.kind # "original" =>
                    \E j \in 1 .. i - 1 :
                        /\ wallet.transactions[j].request = tx.request
                        /\ wallet.transactions[j].nonce = tx.nonce

\* C18 witness: three requests were accepted, a transaction was repriced
\* and a cancellation was sent.
C18_Witness ==
    /\ Len(wallet.accepted) = 3
    /\ \E i, j \in 1 .. Len(wallet.transactions) :
          /\ wallet.transactions[i].kind = "repriced"
          /\ wallet.transactions[j].kind = "cancel"
          /\ wallet.transactions[i].nonce = 0
          /\ i < Len(wallet.transactions)

\* ------------------------------------------------------------------------
\* Properties of the block-window scanners
\* ------------------------------------------------------------------------

\* The least element of a non-empty set of integers.
Min(S) == CHOOSE x \in S : \A y \in S : x <= y

\* The block the scan starts at.
FirstBlock == IF scanner.startingBlock # Undefined THEN scanner.startingBlock
              ELSE scanner.firstTip

\* C19: the answered getLogs windows are consecutive: the first starts at
\* startingBlock (the monitor's tip when none is configured), each next one
\* at the previous endBlock + 1; so every block from the start to the last
\* endBlock is in exactly one answered window.
C19_WindowsAreConsecutive ==
    LET w == scanner.windows
    IN  Len(w) > 0 =>
          /\ w[1][1] = FirstBlock
          /\ \A i \in 2 .. Len(w) : w[i][1] = w[i - 1][2] + 1
          /\ \A b \in FirstBlock .. w[Len(w)][2] :
                Cardinality({i \in 1 .. Len(w) :
                                w[i][1] <= b /\ b <= w[i][2]}) = 1

\* C19 witness: three windows were answered, the first of more than one
\* block, after a rejected getLogs.
C19_Witness ==
    /\ Len(scanner.windows) = 3
    /\ scanner.windows[1][2] > scanner.windows[1][1]
    /\ scanner.try > 0

\* The terms of the minimum that are configured.
EndBlockTerms ==
    {scanner.tip}
    \cup (IF scanner.maxBlocks # Undefined
          THEN {scanner.startBlock + scanner.maxBlocks} ELSE {})
    \cup (IF scanner.stoppingBlock # Undefined
          THEN {scanner.stoppingBlock} ELSE {})

\* C20: when getLogs is issued, endBlock is the least of the monitor's tip,
\* startBlock + maxBlocks and stoppingBlock, left out when not configured.
C20_EndBlockIsMinimum ==
    scanner.pc = "query" =>
        /\ scanner.endBlock = Min(EndBlockTerms)
        /\ scanner.endBlock <= scanner.tip
        /\ scanner.stoppingBlock # Undefined =>
              scanner.endBlock <= scanner.stoppingBlock
        /\ scanner.maxBlocks # Undefined =>
              scanner.endBlock - scanner.startBlock <= scanner.maxBlocks

\* C20 witness: a query whose endBlock is the stopping block, below both
\* the tip and startBlock + maxBlocks.
C20_Witness ==
    /\ scanner.pc = "query"
    /\ scanner.stoppingBlock # Undefined
    /\ scanner.maxBlocks # Undefined
    /\ scanner.endBlock = scanner.stoppingBlock
    /\ scanner.endBlock < scanner.tip
    /\ scanner.endBlock < scanner.startBlock + scanner.maxBlocks
    /\ scanner.startBlock <= scanner.endBlock

\* C21: no getLogs query is issued with an endBlock below its startBlock,
\* whatever startingBlock, stoppingBlock and the tip are.
C21_NoInvertedWindow ==
    scanner.pc = "query" => scanner.endBlock >= scanner.startBlock

\* The scenario of a worker started at block 100 with maxBlocks 50 while
\* the tip is 500.
CatchUpScenario ==
    /\ scanner.startingBlock = 100
    /\ scanner.maxBlocks = 50
    /\ scanner.currentStatus = 500

\* The answered windows have reached the tip.
CaughtUp ==
    /\ Len(scanner.windows) > 0
    /\ scanner.windows[Len(scanner.windows)][2] = scanner.currentStatus

\* The windows of the scenario.
CatchUpWindows ==
    << <<100, 150>>, <<151, 201>>, <<202, 252>>, <<253, 303>>,
       <<304, 354>>, <<355, 405>>, <<406, 456>>, <<457, 500>> >>

\* C22 as stated: in the scenario the worker catches up with exactly 8
\* answered getLogs, the first two for [100,150] and [151,201] and the last
\* for [451,500].
C22_LastWindowFrom451 ==
    CatchUpScenario /\ CaughtUp =>
        /\ Len(scanner.windows) = 8
        /\ scanner.windows[1] = <<100, 150>>
        /\ scanner.windows[2] = <<151, 201>>
        /\ scanner.windows[8] = <<451, 500>>

\* C22: in the scenario the answered windows are, in order, the first ones
\* of [100,150], [151,201], [202,252], [253,303], [304,354], [355,405],
\* [406,456], [457,500]; the worker has caught up after exactly these 8.
C22_EightWindows ==
    CatchUpScenario =>
        /\ Len(scanner.windows) <= 8
        /\ scanner.windows = SubSeq(CatchUpWindows, 1, Len(scanner.windows))
        /\ CaughtUp <=> Len(scanner.windows) = 8

\* C22 witness: the scenario, caught up after its 8th window, back in the
\* loop of run.
C22_Witness ==
    /\ CatchUpScenario
    /\ scanner.stoppingBlock = Undefined
    /\ CaughtUp
    /\ Len(scanner.windows) = 8
    /\ scanner.pc = "loop"
    /\ scanner.startBlock = 501

\* A rejected getLogs leaves the window as it is, and the query ends only
\* with an answer for that very window.
SameWindowUntilAnswered ==
    scanner.pc = "query" /\ scanner'.pc # "query" =>
        /\ scanner'.pc = "process"
        /\ scanner'.windows =
              Append(scanner.windows, <<scanner.startBlock, scanner.endBlock>>)
        /\ scanner'.startBlock = scanner.startBlock

\* While getLogs is being repeated nothing of the scan moves.
NoAdvanceWhileQuerying ==
    scanner.pc = "query" /\ scanner'.pc = "query" =>
        /\ scanner'.startBlock = scanner.startBlock
        /\ scanner'.endBlock = scanner.endBlock
        /\ scanner'.windows = scanner.windows

\* The window after n answered ones was processed and the scan moved past
\* it, or ended with it.
AdvancedPast(n) ==
    /\ Len(scanner.windows) = n + 1
    /\ scanner.pc \in {"loop", "exit", "done"}
    /\ scanner.pc = "loop" =>
          scanner.startBlock = scanner.windows[n + 1][2] + 1

\* C23: a rejected getLogs is repeated for the same startBlock and
\* endBlock; until it is answered startBlock does not move and no other
\* window is queried; as the provider answers in the end, the window is
\* processed and the scan moves past it.
C23_RetrySameWindow ==
    /\ [][SameWindowUntilAnswered /\ NoAdvanceWhileQuerying]_vars
    /\ \A n \in 0 .. MaxBlock :
          (scanner.pc = "query" /\ scanner.try > 0
              /\ Len(scanner.windows) = n) ~> AdvancedPast(n)

\* C23 witness: a getLogs was rejected, then answered for the same window,
\* and the scan has moved to the next window.
C23_Witness ==
    /\ scanner.try > 0
    /\ scanner.pc = "loop"
    /\ Len(scanner.windows) = 2
    /\ scanner.windows[2][1] <= scanner.windows[2][2]
    /\ scanner.startBlock = scanner.windows[2][2] + 1

\* The worker has left the loop of run.
LeftLoop == scanner.pc \in {"exit", "done"}

ExitAfterStoppingWindow ==
    LET w == scanner.windows
    IN  /\ \A i \in 1 .. Len(w) : w[i][2] <= StopBlock
        /\ scanner.pc = "query" => scanner.endBlock <= StopBlock
        /\ LeftLoop =>
              /\ Len(w) > 0
              /\ w[Len(w)][2] >= StopBlock
              /\ \A i \in 1 .. Len(w) - 1 : w[i][2] < StopBlock
        /\ scanner.stoppingBlock = Undefined => ~LeftLoop

\* monitor.close and store.quit are called once each, when the worker ends.
ClosedExactlyOnce ==
    /\ scanner.monitorClosed = (IF scanner.pc = "done" THEN 1 ELSE 0)
    /\ scanner.storeQuit = (IF scanner.pc = "done" THEN 1 ELSE 0)

\* Once the loop is left no query is made and the worker does not resume.
NoQueryAfterExit ==
    LeftLoop => /\ scanner'.windows = scanner.windows
                /\ scanner'.pc \in {"exit", "done"}
                /\ scanner'.try = scanner.try

NoQueryBeforeStatus ==
    scanner.currentStatus = JsNull =>
        /\ scanner.pc \in {"new", "init"}
        /\ scanner.startBlock = JsNull
        /\ scanner.windows = <<>>

\* startBlock is set with a status at hand, to startingBlock when there is
\* one and to the block number of that status otherwise.
StartBlockInitialised ==
    scanner.pc = "init" /\ scanner'.pc # "init" =>
        /\ scanner.currentStatus # JsNull
        /\ scanner'.pc = "loop"
        /\ scanner'.startBlock =
              (IF scanner.startingBlock # Undefined THEN scanner.startingBlock
               ELSE scanner.currentStatus)

\* C25: no getLogs is issued before a first MonitorStatus has arrived,
\* startingBlock configured or not; startBlock is then set to startingBlock
\* if there is one, block 0 included, and else to the block number of the
\* status current at that moment.
C25_StartBlockAfterFirstStatus ==
    /\ []NoQueryBeforeStatus
    /\ [][StartBlockInitialised]_vars

\* C25 witness: with startingBlock 0 the first query starts at block 0,
\* the status at hand being of block 2.
C25_Witness ==
    /\ scanner.pc = "query"
    /\ scanner.windows = <<>>
    /\ scanner.startingBlock = 0
    /\ scanner.firstTip = 2
    /\ scanner.startBlock = 0

\* Handling a log, with or without a failure, moves to the next log of
\* the answer and to nothing else.
OneLogAtATime ==
    scanner.pc = "process" /\ scanner'.pc = "process"
      /\ scanner'.handled # scanner.handled =>
        /\ Len(scanner'.handled) = Len(scanner.handled) + 1
        /\ SubSeq(scanner'.handled, 1, Len(scanner.handled)) = scanner.handled
        /\ scanner'.logs = scanner.logs
        /\ scanner'.windows = scanner.windows
        /\ scanner'.startBlock = scanner.startBlock

\* The window is left when each of its logs was handled or has failed, and
\* startBlock then moves past it.
WindowLeftWhenAllHandled ==
    scanner.pc = "process" /\ scanner'.pc # "process" =>
        /\ Len(scanner.handled) = scanner.logs
        /\ scanner'.windows = scanner.windows
        /\ scanner'.pc \in {"loop", "exit"}
        /\ scanner'.pc = "loop" => scanner'.startBlock = scanner.endBlock + 1

\* A query that follows an answered window starts after that window.
NoWindowAgain ==
    scanner.pc = "query" /\ Len(scanner.windows) > 0 =>
        scanner.startBlock = scanner.windows[Len(scanner.windows)][2] + 1

\* C26: a failure of handleEvent on a log stays with that log: the logs
\* after it in the answer are handled in order, the window is not queried
\* again and startBlock moves past the window as when no log fails.
C26_LogFailureConfined ==
    /\ []NoWindowAgain
    /\ [][OneLogAtATime /\ WindowLeftWhenAllHandled]_vars

\* C26 witness: the first log of an answer failed, the second was handled,
\* and startBlock has moved past the window.
C26_Witness ==
    /\ scanner.pc = "loop"
    /\ scanner.logs = 2
    /\ scanner.handled = <<"failed", "handled">>
    /\ Len(scanner.windows) = 1
    /\ scanner.windows[1][1] <= scanner.windows[1][2]
    /\ scanner.startBlock = scanner.windows[1][2] + 1

\* The value of a decimal string.
RECURSIVE DecimalValue(_)
DecimalValue(digits) ==
    IF digits = <<>> THEN 0
    ELSE 10 * DecimalValue(SubSeq(digits, 1, Len(digits) - 1))
         + digits[Len(digits)]

\* digits is the decimal form of the number whose hexadecimal form is hex.
IsDecimalFormOf(digits, hex) ==
    /\ Len(digits) >= 1
    /\ \A i \in 1 .. Len(digits) : digits[i] \in 0 .. 9
    /\ Len(digits) > 1 => digits[1] # 0
    /\ DecimalValue(digits) = BigInt(hex)

\* The calls of the Mock collector's handler that have ended.
MockCalls == {i \in 1 .. Len(collector.calls) :
                 collector.calls[i].worker = "mock"}

\* The call at i is the resolved call of the method for the event.
Resolved(i, method, event) ==
    /\ collector.calls[i].event = event
    /\ collector.calls[i].method = method
    /\ collector.calls[i].outcome = "resolved"

\* C27: for a Message event the Mock collector calls setAmb, then
\* registerDestinationAddress, then submitProof, each after the one before
\* has resolved; the AmbPayload goes to submit-<destinationChainId>, the
\* decimal form of amb.destinationChain; after a rejection of one of the
\* first two calls nothing is published for the event.
C27_MockStepsInOrder ==
    LET c == collector.calls
    IN  /\ \A i \in MockCalls :
              /\ c[i].method = "registerDestinationAddress" =>
                    i > 1 /\ Resolved(i - 1, "setAmb", c[i].event)
              /\ c[i].method = "submitProof" =>
                    /\ i > 2
                    /\ Resolved(i - 1, "registerDestinationAddress",
                                c[i].event)
                    /\ Resolved(i - 2, "setAmb", c[i].event)
                    /\ c[i].outcome = "resolved" =>
                          /\ c[i].channel[1] = "submit"
                          /\ IsDecimalFormOf(c[i].channel[2],
                                             c[i - 2].amb.destinationChain)
                          /\ c[i].key = c[i - 2].amb.messageIdentifier
              /\ c[i].outcome = "rejected"
                    /\ c[i].method \in {"setAmb", "registerDestinationAddress"}
                    => \A j \in MockCalls :
                          c[j].event = c[i].event => c[j].method # "submitProof"
        /\ collector.worker = "mock" /\ collector.pc = "submitProof" =>
              /\ Len(c) > 1
              /\ Resolved(Len(c), "registerDestinationAddress",
                          collector.event)
              /\ Resolved(Len(c) - 1, "setAmb", collector.event)
        /\ collector.worker = "mock"
              /\ collector.pc = "registerDestinationAddress" =>
              /\ Len(c) > 0
              /\ Resolved(Len(c), "setAmb", collector.event)

\* C27 witness: for a first Message event registerDestinationAddress was
\* rejected and nothing was published; for a second one, of destination
\* chain 0x10, the payload was published on submit-16.
C27_Witness ==
    LET c == collector.calls
    IN  /\ Len(c) = 5
        /\ Resolved(1, "setAmb", 1)
        /\ c[2].method = "registerDestinationAddress"
        /\ c[2].outcome = "rejected"
        /\ Resolved(3, "setAmb", 2)
        /\ c[3].amb.destinationChain = <<1, 0>>
        /\ Resolved(4, "registerDestinationAddress", 2)
        /\ Resolved(5, "submitProof", 2)
        /\ c[5].channel = <<"submit", <<1, 6>>>>

\* The calls of the LayerZero sniffer's handler that have ended.
LayerZeroCalls == {i \in 1 .. Len(collector.calls) :
                      collector.calls[i].worker = "layerZero"}

\* The methods that write to the Store or publish.
StoreWrites == {"setAmb", "registerDestinationAddress", "submitProof",
                "setPayloadLayerZeroAmb"}

\* C28: for a PacketSent log the sniffer calls the Store only when
\* packet.sender is config.incentivesAddress; it stores the AmbMessage
\* under its messageIdentifier and, once that has resolved, the same fields
\* under the payload hash; it never calls submitProof.
C28_SnifferWritesForIncentivesOnly ==
    LET c == collector.calls
    IN  /\ \A i \in LayerZeroCalls :
              /\ c[i].method # "submitProof"
              /\ c[i].method \in StoreWrites /\ c[i].outcome = "resolved" =>
                    c[i].amb.sourceEscrow = incentivesAddress
              /\ c[i].method = "setAmb" /\ c[i].outcome = "resolved" =>
                    c[i].key = c[i].amb.messageIdentifier
              /\ c[i].method = "setPayloadLayerZeroAmb" =>
                    /\ i > 1
                    /\ Resolved(i - 1, "setAmb", c[i].event)
                    /\ c[i].outcome = "resolved" =>
                          /\ c[i].amb = c[i - 1].amb
                          /\ c[i].key =
                                calculatePayloadHash(Guid,
                                    c[i].amb.messageIdentifier)
        /\ collector.worker = "layerZero" =>
              /\ collector.pc \notin {"submitProof",
                                       "registerDestinationAddress"}
              /\ collector.pc # "idle" =>
                    collector.log.sender = incentivesAddress
              /\ collector.pc = "setPayloadLayerZeroAmb" =>
                    Len(c) > 0 /\ Resolved(Len(c), "setAmb", collector.event)

\* C28 witness: a first log has left no call; for a packet of the
\* incentives contract, the second log, both records were written.
C28_Witness ==
    LET c == collector.calls
    IN  /\ collector.worker = "layerZero"
        /\ collector.pc = "idle"
        /\ collector.event = 2
        /\ Len(c) = 3
        /\ \A i \in 1 .. 3 : c[i].event = 2 /\ c[i].outcome = "resolved"
        /\ c[1].method = "getTransactionBlockNumber"
        /\ c[2].method = "setAmb"
        /\ c[3].method = "setPayloadLayerZeroAmb"
        /\ c[3].amb = c[2].amb
        /\ c[3].key # c[2].key

\* The bytes a hexadecimal string stands for.
RECURSIVE BytesOfHex(_)
BytesOfHex(hex) ==
    IF Len(hex) < 2 THEN <<>>
    ELSE <<16 * hex[1] + hex[2]>> \o BytesOfHex(SubSeq(hex, 3, Len(hex)))

\* s is the hexadecimal string of the number n.
IsHexStringOf(s, n) ==
    /\ Len(s) >= 1
    /\ \A i \in 1 .. Len(s) : s[i] \in 0 .. 15
    /\ Len(s) > 1 => s[1] # 0
    /\ BigInt(s) = n

\* decodeMessageWithContext has ended for a message of at least 73 bytes.
Decoded ==
    /\ applied.fn = "decodeMessageWithContext"
    /\ applied.state = "returned"
    /\ Len(applied.input) >= 73

\* C29: for an inner message of at least 73 bytes decodeMessageWithContext
\* returns the hexadecimal string of byte 0 as context, whatever the byte
\* from 0 to 255, bytes 1..32 as messageIdentifier, bytes 33..52 as sender,
\* bytes 53..72 as destination and the bytes from offset 73 as payload.
C29_DecodesFields ==
    Decoded =>
        LET bytes == applied.input
            out == applied.output
        IN  /\ ~out.threw
            /\ IsHexStringOf(out.context, bytes[1])
            /\ BytesOfHex(out.messageIdentifier) = SubSeq(bytes, 2, 33)
            /\ BytesOfHex(out.sender) = SubSeq(bytes, 34, 53)
            /\ BytesOfHex(out.destination) = SubSeq(bytes, 54, 73)
            /\ out.payload = SubSeq(bytes, 74, Len(bytes))

\* A value of the configuration file is defined.
IsDefined(value) == value \notin {Undefined, JsNull}

\* loadWorkerData has returned.
Loaded == applied.fn = "loadWorkerData" /\ applied.state = "returned"

\* C30: a submitter parameter of the worker is the chain's value if
\* defined, else the value of relayer.submitter if defined, else the
\* default; the worker's gasLimitBuffer has a default entry, 0 when none is
\* configured, a chain entry replaces the global entry of its key, and the
\* other global entries are kept.
C30_ChainGlobalDefault ==
    Loaded =>
        LET chain == applied.input.chain
            global == applied.input.global
            out == applied.output
        IN  /\ \A parameter \in SubmitterParameters :
                  out.parameters[parameter] =
                      (IF IsDefined(chain.parameters[parameter])
                       THEN chain.parameters[parameter]
                       ELSE IF IsDefined(global.parameters[parameter])
                       THEN global.parameters[parameter]
                       ELSE DefaultOf(parameter))
            /\ IsDefined(out.gasLimitBuffer["default"])
            /\ \A key \in BufferKeys :
                  out.gasLimitBuffer[key] =
                      (IF chain.gasLimitBuffer.configured
                          /\ IsDefined(chain.gasLimitBuffer.entries[key])
                       THEN chain.gasLimitBuffer.entries[key]
                       ELSE IF global.gasLimitBuffer.configured
                          /\ IsDefined(global.gasLimitBuffer.entries[key])
                       THEN global.gasLimitBuffer.entries[key]
                       ELSE IF key = "default" THEN 0
                       ELSE Undefined)

\* C30 witness: a chain value of 0 is kept, a parameter set nowhere has its
\* default, one set globally only has the global value; the chain's mock
\* entry replaces the global one, the global wormhole entry is kept and the
\* default entry is 0.
C30_Witness ==
    /\ Loaded
    /\ applied.input.chain.parameters["newOrdersDelay"] = 0
    /\ applied.input.global.parameters["newOrdersDelay"] = 8
    /\ applied.output.parameters["newOrdersDelay"] = 0
    /\ applied.input.chain.parameters["retryInterval"] = Undefined
    /\ applied.input.global.parameters["retryInterval"] = Undefined
    /\ applied.output.parameters["retryInterval"] = 30000
    /\ applied.input.chain.parameters["maxTries"] = Undefined
    /\ applied.output.parameters["maxTries"] = 8
    /\ applied.input.chain.gasLimitBuffer.entries = Buffer(Undefined, 4, Undefined)
    /\ applied.input.global.gasLimitBuffer.entries = Buffer(Undefined, 3, 9)
    /\ applied.output.gasLimitBuffer = Buffer(0, 4, 9)

\* Neither relayer.submitter nor the chain sets the parameter.
SetNowhere(parameter) ==
    /\ ~IsDefined(applied.input.chain.parameters[parameter])
    /\ ~IsDefined(applied.input.global.parameters[parameter])

\* C31: a worker of a configuration that sets neither maxTries nor
\* retryInterval runs with maxTries 3 and a retryInterval of 2000 ms.
C31_DefaultsWhenUnset ==
    Loaded /\ SetNowhere("maxTries") /\ SetNowhere("retryInterval") =>
        /\ applied.output.parameters["maxTries"] = 3
        /\ applied.output.parameters["retryInterval"] = 2000


\* ------------------------------------------------------------------------
\* The Stores of several chains over the keys of one redis
\*
\* Every Store is constructed with a chainId, or with none for a connection
\* meant for reading.  The calls run to completion, one after the other;
\* `applied` holds the call, the redis it found and what the call left.
\* ------------------------------------------------------------------------

\* Calls made on the Stores in one run.
MaxStoreCalls == 3

\* The message identifiers of the bounties and AMB messages (0xAA.., 0xBB..).
StoreMessageIds == {170, 187}

\* The chainId argument of the Store constructor, null by default.
StoreChainIds == {JsNull, 1}

\* Store.combineString: the parts of a key, joined with ':'.
combineString(prefix, midfix, id) == <<prefix, midfix, id>>

StoreKeys ==
    {combineString("relayer", midfix, m) :
        midfix \in {"bounty", "amb"}, m \in StoreMessageIds}

\* A redis without keys: redis.get answers null (<<>>) for every key.
EmptyRedis == [key \in StoreKeys |-> <<>>]

\* The register* events and AMB messages handed to the Stores.
StoreEvents(events) ==
    {[event EXCEPT !.messageIdentifier = m] :
        event \in events, m \in StoreMessageIds}

StorePlacedEvents ==
    {event \in StoreEvents(PlacedEvents) :
        ExtremePrice(event.priceOfDeliveryGas)
        /\ ExtremePrice(event.priceOfAckGas)}

StoreIncreasedEvents ==
    {event \in StoreEvents(IncreasedEvents) :
        ExtremePrice(event.newDeliveryGasPrice)
        /\ ExtremePrice(event.newAckGasPrice)}

StoreAmbs ==
    [messageIdentifier : StoreMessageIds, amb : {"mock"},
     destinationChain : {<<0, 1>>}, sourceEscrow : {incentivesAddress}]

\* The calls of a Store: the method and its argument.
StoreCalls ==
    [method : {"registerBountyPlaced"}, arg : StorePlacedEvents]
    \cup [method : {"registerMessageDelivered"},
          arg : StoreEvents(DeliveredEvents)]
    \cup [method : {"registerBountyClaimed"}, arg : StoreEvents(ClaimedEvents)]
    \cup [method : {"registerBountyIncreased"}, arg : StoreIncreasedEvents]
    \cup [method : {"setAmb"}, arg : StoreAmbs]
    \cup [method : {"getBounty"}, arg : [messageIdentifier : StoreMessageIds]]

\* The register* method of a method name.
OpOf(method) ==
    CASE method = "registerBountyPlaced" -> "placed"
      [] method = "registerMessageDelivered" -> "delivered"
      [] method = "registerBountyClaimed" -> "claimed"
      [] method = "registerBountyIncreased" -> "increased"

\* What a call leaves: the redis, the notifications published, the redis
\* commands issued, whether it returned or threw, and the value returned
\* (<<>>: null or nothing).
Ended(redis, published, commands, outcome, result) ==
    [redis |-> redis, published |-> published, commands |-> commands,
     outcome |-> outcome, result |-> result]

\* Store.set: redis.set, then the notification on relayer:key.
StoreSet(redis, key, value, commands) ==
    Ended([redis EXCEPT ![key] = <<value>>],
          <<[key |-> key, action |-> "set"]>>,
          commands \o <<"set">>, "returned", <<>>)

\* The first statement of the register* methods:
\* if (chainId === null) throw new Error('ChainId is not set: ...').
ThrowsReadOnly(chainId) == chainId = JsNull

\* A register* method of a Store constructed with chainId.
RegisterCall(redis, chainId, op, event) ==
    LET key == combineString("relayer", "bounty", event.messageIdentifier)
        existingValue == redis[key]
    IN  IF ThrowsReadOnly(chainId)
        THEN Ended(redis, <<>>, <<>>, "threw", <<>>)
        ELSE IF CallSets(op, event, existingValue)
        THEN StoreSet(redis, key,
                      CallValue(op, chainId, event, existingValue), <<"get">>)
        ELSE Ended(redis, <<>>, <<"get">>, "returned", <<>>)

\* Variant of setAmb: a Store constructed without chainId refuses to write.
setAmb_ReadOnly(redis, chainId, amb) ==
    IF ThrowsReadOnly(chainId)
    THEN Ended(redis, <<>>, <<>>, "threw", <<>>)
    ELSE StoreSet(redis,
                  combineString("relayer", "amb", amb.messageIdentifier),
                  amb, <<>>)

\* Variant of setAmb: the AmbMessage is written under the bounty's key.
setAmb_BountyKey(redis, chainId, amb) ==
    StoreSet(redis, combineString("relayer", "bounty", amb.messageIdentifier),
             amb, <<>>)

\* Store.setAmb: the AmbMessage is stored under relayer:amb:<id>; the
\* method does not look at chainId.
setAmb(redis, chainId, amb) ==
    StoreSet(redis, combineString("relayer", "amb", amb.messageIdentifier),
             amb, <<>>)

\* Variant of Truthy: the value is a number, and 0 is falsy.
Truthy_Number(value) == value \notin {Undefined, JsNull, 0}

\* Truthiness of a property read from a Bounty document: the prices and
\* targetDelta are stored as BigNumber objects ({type, hex}), which are
\* truthy whatever their value; a missing property is undefined.
Truthy(value) == value \notin {Undefined, JsNull}

\* Store.getBounty: the document under relayer:bounty:<id> if it holds the
\* two prices and targetDelta, else null.
getBounty(redis, messageIdentifier) ==
    LET query == redis[combineString("relayer", "bounty", messageIdentifier)]
    IN  IF /\ query # <<>>
           /\ Truthy(query[1]["priceOfDeliveryGas"])
           /\ Truthy(query[1]["priceOfAckGas"])
           /\ Truthy(query[1]["targetDelta"])
        THEN Ended(redis, <<>>, <<"get">>, "returned", query)
        ELSE Ended(redis, <<>>, <<"get">>, "returned", <<>>)

\* The call `method(arg)` of a Store constructed with chainId.
StoreCall(redis, chainId, method, arg) ==
    CASE method = "setAmb" -> setAmb(redis, chainId, arg)
      [] method = "getBounty" -> getBounty(redis, arg.messageIdentifier)
      [] OTHER -> RegisterCall(redis, chainId, OpOf(method), arg)

\* A Store is called: the first call finds an empty redis, a later call
\* the redis the call before it left.
CallStore ==
    /\ \/ applied.state = "none"
       \/ /\ applied.fn = "Store"
          /\ applied.state = "returned"
          /\ applied.input.calls < MaxStoreCalls
    /\ \E chainId \in StoreChainIds, c \in StoreCalls :
          applied' = [fn |-> "Store", state |-> "called",
                      input |-> [redis |-> IF applied.state = "none"
                                           THEN EmptyRedis
                                           ELSE applied.output.redis,
                                 chainId |-> chainId,
                                 method |-> c.method,
                                 arg |-> c.arg,
                                 calls |-> IF applied.state = "none" THEN 1
                                           ELSE applied.input.calls + 1],
                      output |-> <<>>]
    /\ UNCHANGED <<storeVars, queueVars, submitter, wallet, scanner,
                   collector>>

\* The call returns or throws.
StoreCallEnds ==
    /\ applied.fn = "Store"
    /\ applied.state = "called"
    /\ applied' = [applied EXCEPT
           !.state = "returned",
           !.output = StoreCall(applied.input.redis, applied.input.chainId,
                                applied.input.method, applied.input.arg)]
    /\ UNCHANGED <<storeVars, queueVars, submitter, wallet, scanner,
                   collector>>

NextKeys ==
    \/ CallStore
    \/ StoreCallEnds

\* The Stores of several chains over one redis.
SpecKeys == Init /\ [][NextKeys]_vars

\* A call of a Store has ended.
StoreEnded == applied.fn = "Store" /\ applied.state = "returned"

\* The methods of the Store that modify the key/value store.
ModifyingMethods ==
    {"registerBountyPlaced", "registerMessageDelivered",
     "registerBountyClaimed", "registerBountyIncreased", "setAmb"}

\* C32: a call of a modifying method on a Store constructed with chainId
\* null throws before any redis command, leaves every key as it was and
\* publishes nothing.
C32_ReadOnlyStoreRefusesWrites ==
    StoreEnded /\ applied.input.chainId = JsNull
               /\ applied.input.method \in ModifyingMethods =>
        /\ applied.output.outcome = "threw"
        /\ applied.output.commands = <<>>
        /\ applied.output.redis = applied.input.redis
        /\ applied.output.published = <<>>


\* The key of the Bounty record of a messageIdentifier.
BountyKeyOf(m) == combineString("relayer", "bounty", m)

\* The key of the AmbMessage record of a messageIdentifier.
AmbKeyOf(m) == combineString("relayer", "amb", m)

\* The keys whose value the ended call has changed.
ChangedKeys ==
    {key \in StoreKeys : applied.output.redis[key] # applied.input.redis[key]}

\* C36: a register* call for m changes at most relayer:bounty:m, and
\* setAmb for m changes only relayer:amb:m; every other Bounty record and
\* AmbMessage record is as the call found it.
C36_FrameOfStoreCalls ==
    StoreEnded =>
        LET m == applied.input.arg.messageIdentifier
        IN  /\ applied.input.method \in ModifyingMethods \ {"setAmb"} =>
                ChangedKeys \subseteq {BountyKeyOf(m)}
            /\ applied.input.method = "setAmb" =>
                ChangedKeys \subseteq {AmbKeyOf(m)}

\* A register* call has rewritten the Bounty record of one identifier
\* while the other identifier has a Bounty record and an AmbMessage record.
C36_Witness_BountyRewritten ==
    /\ StoreEnded
    /\ applied.input.method = "registerMessageDelivered"
    /\ ChangedKeys = {BountyKeyOf(applied.input.arg.messageIdentifier)}
    /\ \E m \in StoreMessageIds :
          /\ m # applied.input.arg.messageIdentifier
          /\ applied.input.redis[BountyKeyOf(m)] # <<>>
          /\ applied.input.redis[AmbKeyOf(m)] # <<>>

\* The call returned a record (getBounty: a Bounty).
ReturnedBounty == applied.output.result # <<>>

\* The document getBounty found, <<>> if there is none.
QueriedRecord ==
    applied.input.redis[BountyKeyOf(applied.input.arg.messageIdentifier)]

\* Is the property part of the document?
HasProperty(doc, field) == doc[field] # Undefined

\* C38: getBounty returns a Bounty exactly when a record exists and holds
\* priceOfDeliveryGas, priceOfAckGas and targetDelta; it returns null
\* otherwise, and it issues no command but its redis.get.
C38_GetBountyNeedsThePrices ==
    StoreEnded /\ applied.input.method = "getBounty" =>
        /\ ReturnedBounty <=>
              /\ QueriedRecord # <<>>
              /\ HasProperty(QueriedRecord[1], "priceOfDeliveryGas")
              /\ HasProperty(QueriedRecord[1], "priceOfAckGas")
              /\ HasProperty(QueriedRecord[1], "targetDelta")
        /\ ReturnedBounty => applied.output.result = QueriedRecord
        /\ applied.output.redis = applied.input.redis
        /\ applied.output.published = <<>>
        /\ applied.output.commands = <<"get">>
        /\ applied.output.outcome = "returned"

\* getBounty returned a Bounty whose prices are 0.
C38_Witness_BountyOfPriceZero ==
    /\ StoreEnded
    /\ applied.input.method = "getBounty"
    /\ ReturnedBounty
    /\ applied.output.result[1]["priceOfDeliveryGas"] = 0
    /\ applied.output.result[1]["priceOfAckGas"] = 0

\* getBounty returned null for a sparse record: one that holds both prices
\* (registerBountyIncreased wrote them) and no targetDelta.
C38_Witness_SparseRecord ==
    /\ StoreEnded
    /\ applied.input.method = "getBounty"
    /\ ~ReturnedBounty
    /\ QueriedRecord # <<>>
    /\ HasProperty(QueriedRecord[1], "priceOfDeliveryGas")
    /\ ~HasProperty(QueriedRecord[1], "targetDelta")


\* C33: every Bounty record present in the Store holds a status that is one
\* of BountyPlaced, MessageDelivered and BountyClaimed, after every
\* sequence of register* calls.
C33_StatusIsAlwaysAStatus ==
    \A m \in MessageIds :
        db[BountyKey(m)] # <<>> => Doc(m)["status"] \in Statuses

\* The record registerBountyIncreased created was then updated by
\* registerMessageDelivered: its status is null (NaN written as JSON).
C33_StatusIsNull ==
    \E m \in MessageIds :
        /\ last.op = "delivered"
        /\ last.existingValue # <<>>
        /\ last.existingValue[1]["status"] = Undefined
        /\ Doc(m)["status"] = JsNull


\* The register* call that ends in this step repeats the call before it:
\* the same method of the same Store with the same event.
RepeatsLastCall ==
    /\ last.op # "none"
    /\ last'.op = last.op
    /\ last'.chainId = last.chainId
    /\ last'.event = last.event

\* C34: a register* call that repeats the call before it leaves the Bounty
\* record as the first of the two calls left it, whatever the record was
\* before.
C34_ReRegisteringIsIdempotent ==
    [][RepeatsLastCall => db' = db]_vars

\* C34 restricted to records that held a status before the first of the
\* two calls, and to identifiers without a record.
C34_IdempotentOnRecordsWithStatus ==
    [][( /\ RepeatsLastCall
         /\ \/ last.existingValue = <<>>
            \/ last.existingValue[1]["status"] \in Statuses )
       => db' = db]_vars


\* ------------------------------------------------------------------------
\* SubmitQueue.handleOrder: the continuation of wallet.submitTransaction
\* applied to the responses of a wallet
\* ------------------------------------------------------------------------

\* Every response a wallet can send: each of submissionError,
\* confirmationError, tx and txReceipt present or absent.
AllWalletResponses ==
    {<<submissionError, confirmationError, tx, txReceipt>> :
        submissionError \in {"none"} \cup ErrorCodes,
        confirmationError \in {"none"} \cup ErrorCodes,
        tx \in {"none", "tx"},
        txReceipt \in {Undefined} \cup GasUsedValues}

\* The orders a wallet returns as the metadata of a response.
MetadataOrders ==
    [messageIdentifier : StoreMessageIds, isDelivery : BOOLEAN,
     requeueCount : {Undefined, 1}]

\* { ...order, tx: transactionResult.tx, txReceipt: ... }
SubmitOrderResultOf(response, order) ==
    [f \in DOMAIN order \cup {"tx", "txReceipt"} |->
        IF f = "tx" THEN response[3]
        ELSE IF f = "txReceipt" THEN response[4]
        ELSE order[f]]

\* The callback handed to `then`: it throws, or it returns the
\* SubmitOrderResult (<<>>: nothing is returned).
TransactionResultHandler(response, metadata) ==
    LET error == TransactionResultError(response)
    IN  IF error # "none"
        THEN [outcome |-> "threw", error |-> error, result |-> <<>>]
        ELSE [outcome |-> "returned", error |-> "none",
              result |-> <<SubmitOrderResultOf(response, metadata)>>]

\* The wallet answers a submitTransaction request of the queue.
WalletSendsResponse ==
    /\ applied.state = "none"
    /\ \E response \in AllWalletResponses, metadata \in MetadataOrders :
          applied' = [applied EXCEPT
              !.fn = "handleOrder",
              !.state = "called",
              !.input = [response |-> response, metadata |-> metadata]]
    /\ UNCHANGED <<storeVars, queueVars, submitter, wallet, scanner,
                   collector>>

\* The callback runs on the response: txPromise is settled.
TxPromiseSettles ==
    /\ applied.fn = "handleOrder"
    /\ applied.state = "called"
    /\ applied' = [applied EXCEPT
           !.state = "returned",
           !.output = TransactionResultHandler(applied.input.response,
                                               applied.input.metadata)]
    /\ UNCHANGED <<storeVars, queueVars, submitter, wallet, scanner,
                   collector>>

NextResponse ==
    \/ WalletSendsResponse
    \/ TxPromiseSettles

\* SubmitQueue's handling of every wallet response.
SpecResponse == Init /\ [][NextResponse]_vars

\* txPromise is settled.
Settled == applied.fn = "handleOrder" /\ applied.state = "returned"

\* The response carries no error, a tx and a txReceipt.
CleanResponse(response) ==
    /\ response[1] = "none"
    /\ response[2] = "none"
    /\ response[3] # "none"
    /\ response[4] # Undefined

\* C35: an attempt yields a SubmitOrderResult exactly when the wallet
\* response carries no submissionError, no confirmationError, a tx and a
\* txReceipt, and the result is the order of the response metadata extended
\* with that tx and txReceipt; otherwise the attempt fails, with the
\* submissionError if there is one, else with the confirmationError if
\* there is one, else with an error that says which of tx and txReceipt is
\* missing.
C35_ResultOnlyForCleanResponse ==
    Settled =>
        LET response == applied.input.response
            metadata == applied.input.metadata
        IN  /\ applied.output.outcome = "returned" <=> CleanResponse(response)
            /\ CleanResponse(response) =>
                  /\ Len(applied.output.result) = 1
                  /\ DOMAIN applied.output.result[1]
                        = DOMAIN metadata \cup {"tx", "txReceipt"}
                  /\ \A f \in DOMAIN metadata :
                        applied.output.result[1][f] = metadata[f]
                  /\ applied.output.result[1]["tx"] = response[3]
                  /\ applied.output.result[1]["txReceipt"] = response[4]
            /\ ~CleanResponse(response) =>
                  /\ applied.output.outcome = "threw"
                  /\ applied.output.result = <<>>
                  /\ response[1] # "none" => applied.output.error = response[1]
                  /\ (response[1] = "none" /\ response[2] # "none")
                        => applied.output.error = response[2]
                  /\ (response[1] = "none" /\ response[2] = "none")
                        => applied.output.error
                              = IF response[3] = "none" THEN "NO_TX"
                                ELSE "NO_RECEIPT"

\* A response with both errors, of different codes, and with a tx and a
\* txReceipt: the attempt failed with the submissionError.
C35_Witness_BothErrors ==
    /\ Settled
    /\ applied.input.response[1] = "TIMEOUT"
    /\ applied.input.response[2] = "CALL_EXCEPTION"
    /\ applied.input.response[3] = "tx"
    /\ applied.input.response[4] # Undefined
    /\ applied.output.outcome = "threw"
    /\ applied.output.error = "TIMEOUT"


\* ------------------------------------------------------------------------
\* A block-window scanner whose monitor reports any tip
\* ------------------------------------------------------------------------

\* The monitor's listener, lines 498-506: the status delivered replaces
\* currentStatus whatever its block number; the tip may repeat or go down.
MonitorListenerAnyTip ==
    /\ scanner.pc \in {"init", "loop", "query", "process"}
    /\ \E blockNumber \in Blocks :
          scanner' = [scanner EXCEPT !.currentStatus = blockNumber]
    /\ UNCHANGED <<storeVars, queueVars, submitter, wallet, collector, applied>>

\* run, lines 536-540: an iteration that reads the tip, waits for
\* processingInterval and continues.
WaitIteration ==
    /\ scanner.pc = "loop"
    /\ \/ scanner.currentStatus \in {JsNull, 0}
       \/ scanner.startBlock > scanner.currentStatus
    /\ scanner' = [scanner EXCEPT !.tip = scanner.currentStatus]
    /\ UNCHANGED <<storeVars, queueVars, submitter, wallet, collector, applied>>

NextAnyTip ==
    \/ MockCollectorWorker
    \/ MonitorListenerAnyTip
    \/ InitStartBlock
    \/ WaitIteration
    \/ ScanIteration
    \/ GetLogsThrows
    \/ GetLogsReturns
    \/ HandleEventReturns
    \/ HandleEventThrows
    \/ WindowProcessed
    \/ CloseMonitorAndQuitStore

\* A block-window scanner under a monitor whose tip moves freely.
SpecAnyTip == Init /\ [][NextAnyTip]_vars

\* startBlock (fromBlock) does not decrease in the step.
StartBlockNotDecreased ==
    scanner.startBlock # JsNull => scanner'.startBlock >= scanner.startBlock

\* No block of an answered window is part of the window being queried.
NoScannedBlockQueried ==
    scanner.pc = "query" =>
        \A i \in 1 .. Len(scanner.windows) :
            \A block \in scanner.windows[i][1] .. scanner.windows[i][2] :
                block \notin scanner.startBlock .. scanner.endBlock

JsTrue == 1

\* relayer.submitter.enabled of the configuration file.
EnabledValues == {Undefined, JsNull, JsTrue, JsFalse}

\* The chainIds that a configuration file may list.
ConfiguredChainIds == {1, 10, 137}

\* configService.chainsConfig: a Map of chainId to ChainConfig, given by
\* its chainIds in insertion order.
ChainsConfigs ==
    {chains \in UNION {[1 .. n -> ConfiguredChainIds] : n \in 0 .. 3} :
        \A i, j \in 1 .. Len(chains) : chains[i] = chains[j] => i = j}

\* Variant of SubmitterEnabled: the workers are started whatever the
\* configuration says.
SubmitterEnabled_Unchecked(submitterConfig) == TRUE

\* loadGlobalSubmitterConfig, line 105, and the test of line 62:
\* !(submitterConfig['enabled'] ?? true) is false.
SubmitterEnabled(submitterConfig) ==
    NullishCoalescing(submitterConfig.enabled, JsTrue) \notin {JsFalse, NaN}

\* WalletService.attachToWallet(chainId): a new port to the wallet of the
\* chain; `opened` is the number of ports opened before.
attachToWallet(chainId, opened) == [port |-> opened + 1, chainId |-> chainId]

\* onModuleInit is called by the framework.
onModuleInit ==
    /\ applied.state = "none"
    /\ \E enabled \in EnabledValues, chains \in ChainsConfigs :
          applied' = [fn |-> "onModuleInit",
                      state |-> "called",
                      input |-> [submitterConfig |-> [enabled |-> enabled],
                                 chainsConfig |-> chains],
                      output |-> [attached |-> <<>>,    \* ports opened
                                  workerData |-> <<>>,  \* of the next Worker
                                  created |-> <<>>,     \* the Workers made
                                  workers |-> {}]]      \* keys of this.workers
    /\ UNCHANGED <<storeVars, queueVars, submitter, wallet, scanner,
                   collector>>

\* Lines 61-65: the submitter has been disabled.
onModuleInitReturnsEarly ==
    /\ applied.fn = "onModuleInit"
    /\ applied.state = "called"
    /\ ~SubmitterEnabled(applied.input.submitterConfig)
    /\ applied' = [applied EXCEPT !.state = "returned"]
    /\ UNCHANGED <<storeVars, queueVars, submitter, wallet, scanner,
                   collector>>

\* Lines 68-73 and 136-201: loadWorkerData of the next chain; its
\* walletPort is awaited from walletService.attachToWallet(chainId).
LoadWorkerDataOfChain ==
    /\ applied.fn = "onModuleInit"
    /\ applied.state = "called"
    /\ SubmitterEnabled(applied.input.submitterConfig)
    /\ applied.output.workerData = <<>>
    /\ Len(applied.output.created) < Len(applied.input.chainsConfig)
    /\ LET chainId ==
               applied.input.chainsConfig[Len(applied.output.created) + 1]
           walletPort ==
               attachToWallet(chainId, Len(applied.output.attached))
       IN  applied' = [applied EXCEPT
               !.output.attached = Append(@, walletPort),
               !.output.workerData =
                   <<[chainId |-> chainId, walletPort |-> walletPort]>>]
    /\ UNCHANGED <<storeVars, queueVars, submitter, wallet, scanner,
                   collector>>

\* Lines 75-95: the Worker of the chain is created with the workerData
\* and kept in this.workers under the chainId.
NewWorker ==
    /\ applied.fn = "onModuleInit"
    /\ applied.state = "called"
    /\ applied.output.workerData # <<>>
    /\ applied' = [applied EXCEPT
           !.output.workerData = <<>>,
           !.output.created = Append(@, applied.output.workerData[1]),
           !.output.workers = @ \cup {applied.output.workerData[1].chainId}]
    /\ UNCHANGED <<storeVars, queueVars, submitter, wallet, scanner,
                   collector>>

\* Lines 68 and 97-99: every chain has its Worker.
onModuleInitReturns ==
    /\ applied.fn = "onModuleInit"
    /\ applied.state = "called"
    /\ SubmitterEnabled(applied.input.submitterConfig)
    /\ applied.output.workerData = <<>>
    /\ Len(applied.output.created) = Len(applied.input.chainsConfig)
    /\ applied' = [applied EXCEPT !.state = "returned"]
    /\ UNCHANGED <<storeVars, queueVars, submitter, wallet, scanner,
                   collector>>

NextModuleInit ==
    \/ onModuleInit
    \/ onModuleInitReturnsEarly
    \/ LoadWorkerDataOfChain
    \/ NewWorker
    \/ onModuleInitReturns

\* The start of the submitter workers.
SpecModuleInit == Init /\ [][NextModuleInit]_vars

\* The Workers created for the chain.
WorkersOf(chainId) ==
    {i \in 1 .. Len(applied.output.created) :
        applied.output.created[i].chainId = chainId}

\* C39: with enabled = false onModuleInit creates no worker and opens no
\* wallet port; otherwise, once it has returned, every configured chain has
\* exactly one worker, whose wallet port was obtained for the chain's
\* chainId and is the port of no other worker, and no other port was
\* opened.
C39_OneWorkerPerChainUnlessDisabled ==
    applied.fn = "onModuleInit" =>
        /\ applied.input.submitterConfig.enabled = JsFalse =>
              /\ applied.output.created = <<>>
              /\ applied.output.attached = <<>>
        /\ ( /\ applied.state = "returned"
             /\ applied.input.submitterConfig.enabled # JsFalse ) =>
              /\ \A i \in 1 .. Len(applied.input.chainsConfig) :
                    Cardinality(WorkersOf(applied.input.chainsConfig[i])) = 1
              /\ Len(applied.output.created) = Len(applied.input.chainsConfig)
              /\ \A i \in 1 .. Len(applied.output.created) :
                    /\ applied.output.created[i].walletPort.chainId
                          = applied.output.created[i].chainId
                    /\ \A j \in 1 .. Len(applied.output.created) :
                          applied.output.created[i].walletPort
                             = applied.output.created[j].walletPort => i = j
              /\ Len(applied.output.attached) = Len(applied.output.created)
              /\ applied.output.workers
                    = {applied.input.chainsConfig[i] :
                          i \in 1 .. Len(applied.input.chainsConfig)}

\* onModuleInit has returned with the workers of three chains, the key
\* enabled being absent from the configuration.
C39_Witness_ThreeWorkers ==
    /\ applied.fn = "onModuleInit"
    /\ applied.state = "returned"
    /\ applied.input.submitterConfig.enabled = Undefined
    /\ Len(applied.output.created) = 3

\* onModuleInit has returned without a worker although chains are
\* configured: the submitter is disabled.
C39_Witness_Disabled ==
    /\ applied.fn = "onModuleInit"
    /\ applied.state = "returned"
    /\ applied.input.submitterConfig.enabled = JsFalse
    /\ Len(applied.input.chainsConfig) = 3
    /\ applied.output.created = <<>>

====
